---- MODULE Spec2Model ----
(***************************************************************************)
(* A model of the knowledge-base manager of jmagar/piper                   *)
(* (scripts/knowledge-base/kb_modules): the chunker, the batch embedding   *)
(* client, the batched upsert, the ingestion pipeline and the              *)
(* latest-version-only query.                                              *)
(*                                                                         *)
(* The module holds one group of variables per component and one           *)
(* specification per component; a specification leaves the variables of    *)
(* the other components at their idle values.                              *)
(*   SpecChunk   document_processor.chunk_text                             *)
(*   SpecEmbed   embeddings.EmbeddingGenerator.get_embeddings_batch        *)
(*   SpecEmbedOne  embeddings.EmbeddingGenerator.get_embedding              *)
(*   SpecUpsert  vector_store.VectorStore.add_points                       *)
(*   SpecIngest  one KnowledgeBase.add_document / add_text call of a long  *)
(*               document (several embedding sub-batches)                  *)
(*   Spec        the knowledge base: ingestion calls, the clock, queries   *)
(*   SpecVersions  documents of several chunks ingested again and again,   *)
(*               and get_document_versions                                 *)
(*   SpecScroll  get_document_versions on a collection of more points      *)
(*               than one page of client.scroll                            *)
(*   SpecCollection  vector_store.VectorStore.create_collection            *)
(*   SpecId      versioning.VersionManager.create_versioned_id             *)
(*   SpecDirectory  knowledge_base.KnowledgeBase.add_directory             *)
(*   SpecCli     cli.main: one run of the command line                     *)
(*   SpecQuery   one KnowledgeBase.query on a collection of versions       *)
(*   SpecRetry   one call of get_embedding, get_embeddings_batch or        *)
(*               add_points; SpecRetryFair adds that the call keeps running *)
(***************************************************************************)
EXTENDS Integers, Sequences, FiniteSets, TLC

VARIABLES
    \* ---- document_processor.chunk_text ----
    text,        \* the text being chunked: a sequence of characters
    max_size,    \* parameter max_size
    overlap,     \* parameter overlap
    start,       \* local `start`
    chunks,      \* local `chunks`
    chunk_pc,    \* "idle", "call", "loop", "done" (returned), "raised"
    \* ---- embeddings.EmbeddingGenerator.get_embeddings_batch ----
    texts,       \* parameter texts: a sequence of texts
    chunk_size,  \* parameter chunk_size
    emb_i,       \* loop variable i: 0-based start of the current sub-batch
    attempt,     \* loop variable attempt of the current sub-batch
    embeddings,  \* local `embeddings`, the list that is returned
    emb_pc,      \* "idle", "call", "loop", "done" (returned)
    exhausted,   \* the starts i of the sub-batches whose attempts all failed
    \* ---- the remote embedding API ----
    requests,    \* the `input` of every openai.embeddings.create call made,
                 \* in the order of the calls
    \* ---- embeddings.EmbeddingGenerator.get_embedding ----
    ge_text,     \* parameter text
    ge_attempt,  \* loop variable attempt
    ge_result,   \* what the call returned or raised
    ge_pc,       \* "idle", "call", "loop", "returned", "raised"
    \* ---- the vector database ----
    store,       \* the points of the collection: a set of points, one per id
    \* ---- vector_store.VectorStore.add_points ----
    points,      \* parameter points: a sequence of points
    up_i,        \* loop variable i: 0-based start of the current batch
    up_attempt,  \* loop variable attempt of the current batch
    successful_batches,  \* local successful_batches
    upsert_calls,        \* per batch number, the client.upsert calls made
    up_ret,      \* the value returned: TRUE, FALSE or "none"
    up_pc,       \* "idle", "call", "loop", "done" (returned)
    \* ---- knowledge_base.KnowledgeBase ----
    clock,       \* time.time() in whole seconds
    chunk_overlap,  \* DocumentProcessor.chunk_overlap, set at start-up
    calls,       \* number of ingestion calls made so far
    kb_op,       \* the last operation: "none", "add_document", "add_text", "query"
    kb_args,     \* the arguments of the last ingestion call and the outcomes
                 \* of its remote calls
    kb_ret,      \* what the last ingestion call returned: <<success, count>>
    kb_again,    \* the last ingestion call repeated the call before it:
                 \* same operation, arguments, second and remote outcomes
    limit,       \* parameter limit of the last query
    hits,        \* search_result of the last query, as the database returned it
    results,     \* the list the last query returned
    scrolled,    \* the points client.scroll returned to the last
                 \* get_document_versions call
    versions,    \* the list the last get_document_versions call returned
    \* ---- vector_store.VectorStore.create_collection ----
    collections, \* the names of the collections of the database
    indexes,     \* the payload indexes of the database: <<collection, field>>
    cc_call,     \* the last create_collection call: its arguments and what
                 \* the database answered
    cc_ret,       \* what the last create_collection call returned
    \* ---- versioning.VersionManager.create_versioned_id ----
    vid_args,    \* the arguments of the call: path, timestamp, chunk_index
    vid_id,      \* the identifier returned
    vid_pc,       \* "idle", "call", "done" (returned)
    \* ---- knowledge_base.KnowledgeBase.add_directory ----
    dir_exists,  \* os.path.isdir(directory)
    dir_files,   \* the files os.walk yields, in the order it yields them
    dir_extensions,  \* parameter extensions: None or a list
    dir_k,       \* the number of files the loop has dealt with
    dir_log,     \* per file dealt with: what was done with it
    dir_total_chunks,  \* local total_chunks
    successful_files,  \* local successful_files
    failed_files,      \* local failed_files
    skipped_files,     \* local skipped_files
    dir_ret,     \* the value returned: <<success, count>>
    dir_pc,       \* "idle", "call", "walk", "done" (returned)
    \* ---- cli.main ----
    cli_args,    \* the parsed command line: the command and its arguments
    cli_fault,   \* what went wrong while the command ran
    cli_exit,    \* the exit code of the process (0 while it runs)
    cli_pc       \* "idle", "call", "exited"

chunkVars == <<text, max_size, overlap, start, chunks, chunk_pc>>

batchVars == <<texts, chunk_size, emb_i, attempt, embeddings, emb_pc,
               exhausted>>

oneVars == <<ge_text, ge_attempt, ge_result, ge_pc>>

embedVars == <<batchVars, requests, oneVars>>

upsertVars == <<points, up_i, up_attempt, successful_batches, upsert_calls,
                up_ret, up_pc>>

kbVars == <<clock, chunk_overlap, calls, kb_op, kb_args, kb_ret, kb_again,
            limit, hits, results, scrolled, versions>>

collVars == <<collections, indexes, cc_call, cc_ret>>

idVars == <<vid_args, vid_id, vid_pc>>

dirVars == <<dir_exists, dir_files, dir_extensions, dir_k, dir_log, dir_total_chunks, successful_files, failed_files, skipped_files, dir_ret, dir_pc>>

cliVars == <<cli_args, cli_fault, cli_exit, cli_pc>>

vars == <<chunkVars, embedVars, store, upsertVars, kbVars, collVars, idVars, dirVars, cliVars>>

\* What a step of one component leaves alone: the other components.
ChunkFrame == UNCHANGED <<embedVars, store, upsertVars, kbVars, collVars, idVars, dirVars, cliVars>>

EmbedFrame == UNCHANGED <<chunkVars, store, upsertVars, kbVars, collVars, idVars, dirVars, cliVars>>

UpsertFrame == UNCHANGED <<chunkVars, embedVars, kbVars, collVars, idVars, dirVars, cliVars>>

KbFrame == UNCHANGED <<chunkVars, embedVars, upsertVars, collVars, idVars, dirVars, cliVars>>

CollFrame == UNCHANGED <<chunkVars, embedVars, store, upsertVars, kbVars, idVars, dirVars, cliVars>>

IdFrame == UNCHANGED <<chunkVars, embedVars, store, upsertVars, kbVars, collVars, dirVars, cliVars>>

\* add_directory ingests into the store.
DirFrame == UNCHANGED <<chunkVars, embedVars, upsertVars, kbVars, collVars, idVars, cliVars>>

\* A command of the CLI writes to the store and to the collections.
CliFrame == UNCHANGED <<chunkVars, embedVars, upsertVars, kbVars, idVars, dirVars>>

----------------------------------------------------------------------------
(* Bounds *)

\* Longest text handed to chunk_text.
MaxTextLen == 5
\* Largest max_size handed to chunk_text.
MaxSize == 4
\* Largest overlap handed to chunk_text (reaches overlap >= max_size).
MaxOverlap == 4
\* Number of chunks the list `chunks` can hold before the process runs out
\* of memory.  A run that advances `start` at every iteration emits at most
\* Len(text) chunks, so only a run that stopped advancing reaches it.
MaxChunks == 7
\* Longest list of texts handed to get_embeddings_batch.
MaxTexts == 2
\* Largest chunk_size argument handed to get_embeddings_batch.
MaxChunkSizeArg == 2
\* Longest list of points handed to add_points on its own.
MaxPoints == 201
\* Latest second the clock reaches.
MaxClock == 2
\* Number of ingestion calls in one run of the knowledge base.
MaxCalls == 2
\* Largest number of chunks of a document ingested in a run of the
\* knowledge base.
MaxDocChunks == 1
\* Largest number of chunks of the long document of a single ingestion.
MaxLongChunks == 33
\* Largest limit handed to query.
MaxLimit == 1
\* Largest limit handed to the query of a collection of versions.
MaxQueryLimit == 2
\* Largest number of chunks of a version of such a collection.
MaxQueryChunks == 2
\* Largest number of chunks of a document that is ingested again and again.
MaxVersionChunks == 2
\* Largest number of chunks of the one document of a large collection.
MaxLargeChunks == 101
\* Longest text handed to get_embedding.
MaxOneLen == 2
\* Longest path handed to create_versioned_id.
MaxPathLen == 2
\* Largest timestamp and chunk index handed to create_versioned_id (reaches
\* numbers of two digits).
MaxIdNumber == 10
\* Largest number of files in a directory handed to add_directory.
MaxFiles == 2
\* Largest number of chunks of a file of such a directory.
MaxFileChunks == 1

----------------------------------------------------------------------------
(* Python helpers *)

Min(a, b) == IF a <= b THEN a ELSE b

Max(a, b) == IF a >= b THEN a ELSE b

\* The characters a text is made of: a letter, a space, a newline.
Alphabet == {"a", " ", "\n"}

RECURSIVE SeqsUpTo(_, _)
\* All sequences over S of length at most n.
SeqsUpTo(S, n) ==
    IF n = 0 THEN {<<>>}
    ELSE LET shorter == SeqsUpTo(S, n - 1)
         IN  shorter \cup {Append(s, c) : s \in {t \in shorter : Len(t) = n - 1}, c \in S}

\* Python's normalisation of a slice index i against a length n: a negative
\* index counts from the end, and the result is clamped to 0..n.
PyIndex(i, n) ==
    IF i < 0 THEN Max(i + n, 0) ELSE Min(i, n)

\* Python's s[i:j] (0-based, half-open, negative indices allowed).
Slice(s, i, j) ==
    LET lo == PyIndex(i, Len(s))
        hi == PyIndex(j, Len(s))
    IN  IF lo >= hi THEN <<>> ELSE SubSeq(s, lo + 1, hi)

\* Python's s.rfind(c, i, j) for a one-character c: the highest 0-based
\* position of c in s[i:j], or -1.
RFind(s, c, i, j) ==
    LET lo == PyIndex(i, Len(s))
        hi == PyIndex(j, Len(s))
        found == {k \in lo .. (hi - 1) : s[k + 1] = c}
    IN  IF found = {} THEN -1
        ELSE CHOOSE k \in found : \A m \in found : m <= k

----------------------------------------------------------------------------
(* document_processor.chunk_text *)

\* Mutant of FitsSingleChunk: the boundary length is sent into the loop.
FitsSingleChunkStrict(t, m) == Len(t) < m

\* Line 99: the text fits in a single chunk.
FitsSingleChunk(t, m) == Len(t) <= m

\* Lines 108-122: the right edge of the window that starts at s.
WindowEnd(t, m, s) ==
    LET end0 == Min(s + m, Len(t))
        newline_pos == RFind(t, "\n", s, end0)
        space_pos == RFind(t, " ", s + (m \div 2), end0)
    IN  IF end0 < Len(t)
        THEN IF newline_pos > s + (m \div 2) THEN newline_pos + 1
             ELSE IF space_pos > s THEN space_pos + 1
             ELSE end0
        ELSE end0

\* Line 130: where the next window starts.
NextStart(end, ov) == end - ov

\* Line 107: the loop condition.
LoopContinues(s, t) == s < Len(t)

ChunkInit ==
    /\ text \in SeqsUpTo(Alphabet, MaxTextLen)
    /\ max_size \in 1 .. MaxSize
    /\ overlap \in 0 .. MaxOverlap
    /\ start = 0
    /\ chunks = <<>>
    /\ chunk_pc = "call"

ChunkIdle ==
    /\ text = <<>>
    /\ max_size = 1
    /\ overlap = 0
    /\ start = 0
    /\ chunks = <<>>
    /\ chunk_pc = "idle"

\* Lines 95-104: the two early returns, or entry into the loop.
ChunkCall ==
    /\ ChunkFrame
    /\ chunk_pc = "call"
    /\ IF text = <<>>
       THEN /\ chunks' = <<>>
            /\ chunk_pc' = "done"
       ELSE IF FitsSingleChunk(text, max_size)
       THEN /\ chunks' = <<text>>
            /\ chunk_pc' = "done"
       ELSE /\ chunks' = <<>>
            /\ chunk_pc' = "loop"
    /\ start' = 0
    /\ UNCHANGED <<text, max_size, overlap>>

\* Lines 107-130: one iteration of the loop, followed by the test of the
\* loop condition that decides whether the function returns (line 137).
ChunkStep ==
    /\ ChunkFrame
    /\ chunk_pc = "loop"
    /\ Len(chunks) < MaxChunks
    /\ LET end == WindowEnd(text, max_size, start)
       IN  /\ chunks' = Append(chunks, Slice(text, start, end))
           /\ start' = NextStart(end, overlap)
           /\ chunk_pc' = IF LoopContinues(NextStart(end, overlap), text)
                          THEN "loop" ELSE "done"
    /\ UNCHANGED <<text, max_size, overlap>>

\* Lines 126, 131-134: the list can grow no further; append raises
\* MemoryError, which the handler logs and re-raises.
ChunkOutOfMemory ==
    /\ ChunkFrame
    /\ chunk_pc = "loop"
    /\ Len(chunks) >= MaxChunks
    /\ chunk_pc' = "raised"
    /\ UNCHANGED <<text, max_size, overlap, start, chunks>>

ChunkNext ==
    \/ ChunkCall
    \/ ChunkStep
    \/ ChunkOutOfMemory

----------------------------------------------------------------------------
(* embeddings.EmbeddingGenerator.get_embeddings_batch *)

\* config.py line 33.
EMBEDDING_DIMENSIONS == 3072

\* EmbeddingGenerator.__init__: the default of max_retries.
max_retries == 5

\* Lines 74, 141: the character ceiling applied to a text before the call.
EMBED_CHAR_LIMIT == 8191

\* The texts a caller embeds: a word, two words on two lines, and a
\* whitespace-only text.
TextPool == {<<"a">>, <<"a", "\n", "a">>, <<" ">>}

\* Line 64: `not text.strip()`.
IsBlank(t) == \A k \in 1 .. Len(t) : t[k] \in {" ", "\n"}

\* Lines 71-74, 141: text.replace("\n", " ")[:8191].
CleanText(t) ==
    Slice([k \in 1 .. Len(t) |-> IF t[k] = "\n" THEN " " ELSE t[k]], 0, EMBED_CHAR_LIMIT)

\* Lines 68, 180, 188: [0.0] * config["embedding_dimensions"].
ZeroVector == [kind |-> "zero", dim |-> EMBEDDING_DIMENSIONS]

\* The provider's vector for an input: a function of the input it was sent.
ProviderEmbedding(input) ==
    [kind |-> "embedding", of |-> input, dim |-> EMBEDDING_DIMENSIONS]

\* Line 137: texts[i:i+chunk_size].
SubBatch(ts, i, size) == Slice(ts, i, i + size)

\* Lines 150-155: the provider answers with one vector per input, in order.
BatchEmbeddings(batch) ==
    [k \in 1 .. Len(batch) |-> ProviderEmbedding(CleanText(batch[k]))]

\* Line 141: cleaned_texts, the `input` of the call of line 150.
CleanedTexts(batch) == [k \in 1 .. Len(batch) |-> CleanText(batch[k])]

\* Lines 180-182, 188-190: one placeholder per text of the sub-batch.
Placeholders(batch) == [k \in 1 .. Len(batch) |-> ZeroVector]

\* Lines 160-168: a rate limit or connection failure only waits; nothing
\* is appended, whichever attempt it was.
AfterTransientFailure(batch, embs, att) == embs

\* Mutant of AfterProviderError: no placeholder is appended.
AfterProviderErrorDrops(batch, embs, att) == embs

\* Lines 170-182: a provider error appends placeholders on the last attempt.
AfterProviderError(batch, embs, att) ==
    IF att < max_retries - 1 THEN embs ELSE embs \o Placeholders(batch)

\* No get_embedding call is in progress.
OneIdle ==
    /\ ge_text = <<>>
    /\ ge_attempt = 0
    /\ ge_result = [kind |-> "none"]
    /\ ge_pc = "idle"

\* Lines 83-86, 150-153: one openai.embeddings.create call with this input.
Requested(input) == requests' = Append(requests, input)

EmbedInit ==
    /\ texts \in SeqsUpTo(TextPool, MaxTexts)
    /\ chunk_size \in 1 .. MaxChunkSizeArg
    /\ emb_i = 0
    /\ attempt = 0
    /\ embeddings = <<>>
    /\ emb_pc = "call"
    /\ exhausted = {}
    /\ requests = <<>>
    /\ OneIdle

BatchIdle ==
    /\ texts = <<>>
    /\ chunk_size = 1
    /\ emb_i = 0
    /\ attempt = 0
    /\ embeddings = <<>>
    /\ emb_pc = "idle"
    /\ exhausted = {}

\* Lines 133-136: the outer loop is entered, or the empty list is returned.
EmbedCall ==
    /\ EmbedFrame
    /\ emb_pc = "call"
    /\ emb_pc' = IF Len(texts) > 0 THEN "loop" ELSE "done"
    /\ UNCHANGED <<texts, chunk_size, emb_i, attempt, embeddings, exhausted,
                   requests, oneVars>>

\* Lines 136, 193: the sub-batch is over (break, or attempts used up): the
\* outer loop moves to the next sub-batch, or the function returns.
NextSubBatch(embs) ==
    /\ embeddings' = embs
    /\ emb_i' = emb_i + chunk_size
    /\ attempt' = 0
    /\ emb_pc' = IF emb_i + chunk_size < Len(texts) THEN "loop" ELSE "done"

\* Mutant of NextAttempt: a sub-batch that uses up its attempts ends the
\* call.
NextAttemptAborting(embs) ==
    IF attempt + 1 < max_retries
    THEN /\ embeddings' = embs
         /\ attempt' = attempt + 1
         /\ UNCHANGED <<emb_i, emb_pc, exhausted>>
    ELSE /\ embeddings' = embs
         /\ emb_pc' = "done"
         /\ exhausted' = exhausted \cup {emb_i}
         /\ UNCHANGED <<emb_i, attempt>>

\* Line 144: the inner loop moves to the next attempt, or is used up.
NextAttempt(embs) ==
    IF attempt + 1 < max_retries
    THEN /\ embeddings' = embs
         /\ attempt' = attempt + 1
         /\ UNCHANGED <<emb_i, emb_pc, exhausted>>
    ELSE /\ NextSubBatch(embs)
         /\ exhausted' = exhausted \cup {emb_i}

\* Lines 145-158: the remote call succeeds.
EmbedSuccess ==
    /\ EmbedFrame
    /\ emb_pc = "loop"
    /\ NextSubBatch(embeddings \o BatchEmbeddings(SubBatch(texts, emb_i, chunk_size)))
    /\ Requested(CleanedTexts(SubBatch(texts, emb_i, chunk_size)))
    /\ UNCHANGED <<texts, chunk_size, exhausted, oneVars>>

\* Lines 160-163: RateLimitError.
EmbedRateLimit ==
    /\ EmbedFrame
    /\ emb_pc = "loop"
    /\ NextAttempt(AfterTransientFailure(SubBatch(texts, emb_i, chunk_size),
                                         embeddings, attempt))
    /\ Requested(CleanedTexts(SubBatch(texts, emb_i, chunk_size)))
    /\ UNCHANGED <<texts, chunk_size, oneVars>>

\* Lines 165-168: APITimeoutError or APIConnectionError.
EmbedConnectionError ==
    /\ EmbedFrame
    /\ emb_pc = "loop"
    /\ NextAttempt(AfterTransientFailure(SubBatch(texts, emb_i, chunk_size),
                                         embeddings, attempt))
    /\ Requested(CleanedTexts(SubBatch(texts, emb_i, chunk_size)))
    /\ UNCHANGED <<texts, chunk_size, oneVars>>

\* Lines 170-182: any other OpenAIError.
EmbedProviderError ==
    /\ EmbedFrame
    /\ emb_pc = "loop"
    /\ NextAttempt(AfterProviderError(SubBatch(texts, emb_i, chunk_size),
                                      embeddings, attempt))
    /\ Requested(CleanedTexts(SubBatch(texts, emb_i, chunk_size)))
    /\ UNCHANGED <<texts, chunk_size, oneVars>>

\* Lines 184-191: any other exception: placeholders, then break.
EmbedUnexpectedError ==
    /\ EmbedFrame
    /\ emb_pc = "loop"
    /\ NextSubBatch(embeddings \o Placeholders(SubBatch(texts, emb_i, chunk_size)))
    /\ Requested(CleanedTexts(SubBatch(texts, emb_i, chunk_size)))
    /\ UNCHANGED <<texts, chunk_size, exhausted, oneVars>>

EmbedNext ==
    \/ EmbedCall
    \/ EmbedSuccess
    \/ EmbedRateLimit
    \/ EmbedConnectionError
    \/ EmbedProviderError
    \/ EmbedUnexpectedError

(* embeddings.EmbeddingGenerator.get_embedding *)

\* The texts a caller embeds one at a time: empty, whitespace-only and
\* worded texts.
OneTexts == SeqsUpTo(Alphabet, MaxOneLen)

\* Line 64: the text is answered without a remote call.
BlankReturnsZero(t) == IsBlank(t)

\* Lines 71-74: truncated_text, the `input` of the call of line 83.
TruncatedText(t) == CleanText(t)

\* Line 88: response.data[0].embedding.
Returned(vector) == [kind |-> "returned", vector |-> vector]

\* The exception that leaves the call.
Raised(error) == [kind |-> "raised", error |-> error]

OneInit ==
    /\ ge_text \in OneTexts
    /\ ge_attempt = 0
    /\ ge_result = [kind |-> "none"]
    /\ ge_pc = "call"
    /\ requests = <<>>
    /\ BatchIdle

\* Neither embedding function is in progress.
EmbedIdle == BatchIdle /\ requests = <<>> /\ OneIdle

\* Lines 64-68: a blank text is answered with the zero vector.
OneBlank ==
    /\ EmbedFrame
    /\ ge_pc = "call"
    /\ BlankReturnsZero(ge_text)
    /\ ge_result' = Returned(ZeroVector)
    /\ ge_pc' = "returned"
    /\ UNCHANGED <<batchVars, requests, ge_text, ge_attempt>>

\* Lines 70-77: the text is cleaned and the retry loop entered.
OneCall ==
    /\ EmbedFrame
    /\ ge_pc = "call"
    /\ ~BlankReturnsZero(ge_text)
    /\ ge_pc' = "loop"
    /\ UNCHANGED <<batchVars, requests, ge_text, ge_attempt, ge_result>>

\* Mutant of OneNextAttempt: the loop allows one attempt more.
OneNextAttemptExtra ==
    IF ge_attempt + 1 < max_retries + 1
    THEN /\ ge_attempt' = ge_attempt + 1
         /\ UNCHANGED <<ge_result, ge_pc>>
    ELSE /\ ge_result' = Raised("EmbeddingError")
         /\ ge_pc' = "raised"
         /\ UNCHANGED ge_attempt

\* Lines 77, 117: the loop moves to the next attempt; when the attempts are
\* used up the statement after the loop raises EmbeddingError.
OneNextAttempt ==
    IF ge_attempt + 1 < max_retries
    THEN /\ ge_attempt' = ge_attempt + 1
         /\ UNCHANGED <<ge_result, ge_pc>>
    ELSE /\ ge_result' = Raised("EmbeddingError")
         /\ ge_pc' = "raised"
         /\ UNCHANGED ge_attempt

\* Lines 78-88: the remote call succeeds.
OneSuccess ==
    /\ EmbedFrame
    /\ ge_pc = "loop"
    /\ Requested(TruncatedText(ge_text))
    /\ ge_result' = Returned(ProviderEmbedding(TruncatedText(ge_text)))
    /\ ge_pc' = "returned"
    /\ UNCHANGED <<batchVars, ge_text, ge_attempt>>

\* Lines 90-93: RateLimitError.
OneRateLimit ==
    /\ EmbedFrame
    /\ ge_pc = "loop"
    /\ Requested(TruncatedText(ge_text))
    /\ OneNextAttempt
    /\ UNCHANGED <<batchVars, ge_text>>

\* Lines 95-98: APITimeoutError or APIConnectionError.
OneConnectionError ==
    /\ EmbedFrame
    /\ ge_pc = "loop"
    /\ Requested(TruncatedText(ge_text))
    /\ OneNextAttempt
    /\ UNCHANGED <<batchVars, ge_text>>

\* Lines 100-108: any other OpenAIError waits and retries, and on the last
\* attempt is raised again as it is.
OneProviderError ==
    /\ EmbedFrame
    /\ ge_pc = "loop"
    /\ Requested(TruncatedText(ge_text))
    /\ IF ge_attempt < max_retries - 1
       THEN OneNextAttempt
       ELSE /\ ge_result' = Raised("OpenAIError")
            /\ ge_pc' = "raised"
            /\ UNCHANGED ge_attempt
    /\ UNCHANGED <<batchVars, ge_text>>

\* Lines 110-112: any other exception is raised again at once.
OneUnexpectedError ==
    /\ EmbedFrame
    /\ ge_pc = "loop"
    /\ Requested(TruncatedText(ge_text))
    /\ ge_result' = Raised("Exception")
    /\ ge_pc' = "raised"
    /\ UNCHANGED <<batchVars, ge_text, ge_attempt>>

OneNext ==
    \/ OneBlank
    \/ OneCall
    \/ OneSuccess
    \/ OneRateLimit
    \/ OneConnectionError
    \/ OneProviderError
    \/ OneUnexpectedError

----------------------------------------------------------------------------
(* versioning.py and the points built by KnowledgeBase._process_chunks *)

DigitChars == <<"0", "1", "2", "3", "4", "5", "6", "7", "8", "9">>

RECURSIVE Digits(_)
\* str(n) for n >= 0, as a sequence of characters (the f-string of line 137).
Digits(n) ==
    IF n < 10 THEN <<DigitChars[n + 1]>>
    ELSE Digits(n \div 10) \o <<DigitChars[(n % 10) + 1]>>

\* Mutant of VersionedName: the chunk index is left out of the name.
VersionedNameNoIndex(path, timestamp, chunk_index) ==
    path \o <<"_">> \o Digits(timestamp)

\* Mutant of VersionedName: the three parts are joined without a separator.
VersionedNameUnseparated(path, timestamp, chunk_index) ==
    path \o Digits(timestamp) \o Digits(chunk_index)

\* versioning.py line 137: name = f"{path}_{timestamp}_{chunk_index}".
VersionedName(path, timestamp, chunk_index) ==
    path \o <<"_">> \o Digits(timestamp) \o <<"_">> \o Digits(chunk_index)

\* versioning.py lines 136-138: uuid.uuid5(NAMESPACE_URL, name); the hash is
\* taken as injective on the name.
create_versioned_id(path, timestamp, chunk_index) ==
    [namespace |-> "NAMESPACE_URL",
     name |-> VersionedName(path, timestamp, chunk_index)]

\* versioning.py lines 34-35: the date of a timestamp, for timestamps of
\* the first day of the epoch, in a process whose time zone is UTC:
\* <<year, month, day, hour, minute, second>>.
format_timestamp(timestamp) ==
    <<1970, 1, 1, (timestamp \div 3600) % 24, (timestamp \div 60) % 60,
      timestamp % 60>>

\* knowledge_base.py line 211: metadata.get("path", "text").
BaseId(metadata) ==
    IF "path" \in DOMAIN metadata THEN metadata.path ELSE <<"t", "e", "x", "t">>

\* knowledge_base.py lines 209-227: the point of the chunk at 0-based
\* position chunk_index.
MakePoint(chunk, embedding, metadata, timestamp, chunk_index, total_chunks) ==
    [id |-> create_versioned_id(BaseId(metadata), timestamp, chunk_index),
     vector |-> embedding,
     payload |-> [text |-> chunk,
                  metadata |-> metadata,
                  timestamp |-> timestamp,
                  version_date |-> format_timestamp(timestamp),
                  chunk_index |-> chunk_index,
                  total_chunks |-> total_chunks]]

----------------------------------------------------------------------------
(* vector_store.VectorStore.add_points *)

\* vector_store.py line 37.
MAX_BATCH_SIZE == 100

\* vector_store.py line 39.
MAX_RETRIES == 3

\* The elements of a sequence.
Range(seq) == {seq[k] : k \in 1 .. Len(seq)}

\* client.upsert: the points of the batch replace the stored points with the
\* same ids and are added to the others.
Upsert(st, batch) ==
    {p \in st : \A k \in 1 .. Len(batch) : batch[k].id # p.id} \cup Range(batch)

\* Line 164.
BatchSize(pts) == Min(MAX_BATCH_SIZE, Len(pts))

\* Line 166.
TotalBatches(pts) == ((Len(pts) - 1) \div BatchSize(pts)) + 1

\* Line 171: points[i:i+batch_size].
PointBatch(pts, i) == Slice(pts, i, i + BatchSize(pts))

\* Line 172.
BatchNum(pts, i) == (i \div BatchSize(pts)) + 1

\* Mutant of RetriesLeft: one attempt fewer.
RetriesLeftShort(att) == att < MAX_RETRIES - 2

\* Lines 187, 196: another attempt follows a failed one.
RetriesLeft(att) == att < MAX_RETRIES - 1

\* The points of one document of n one-letter chunks, all embedded, stamped
\* with timestamp 1: what an ingestion hands to add_points.
DocumentPoints(n) ==
    [k \in 1 .. n |->
        MakePoint(<<"a">>, ProviderEmbedding(<<"a">>),
                  [type |-> "document", path |-> <<"d">>], 1, k - 1, n)]

UpsertInit ==
    /\ store = {}
    /\ points \in {DocumentPoints(n) : n \in 0 .. MaxPoints}
    /\ up_i = 0
    /\ up_attempt = 0
    /\ successful_batches = 0
    /\ upsert_calls = <<>>
    /\ up_ret = "none"
    /\ up_pc = "call"

UpsertIdle ==
    /\ points = <<>>
    /\ up_i = 0
    /\ up_attempt = 0
    /\ successful_batches = 0
    /\ upsert_calls = <<>>
    /\ up_ret = "none"
    /\ up_pc = "idle"

\* Lines 158-170: no points returns True at once; else the loop is entered.
UpsertCall ==
    /\ UpsertFrame
    /\ up_pc = "call"
    /\ IF Len(points) = 0
       THEN /\ up_ret' = TRUE
            /\ up_pc' = "done"
            /\ upsert_calls' = <<>>
       ELSE /\ up_ret' = "none"
            /\ up_pc' = "loop"
            /\ upsert_calls' = [b \in 1 .. TotalBatches(points) |-> 0]
    /\ UNCHANGED <<store, points, up_i, up_attempt, successful_batches>>

\* The client.upsert call of the current batch is counted.
CountUpsertCall ==
    upsert_calls' = [upsert_calls EXCEPT ![BatchNum(points, up_i)] = @ + 1]

\* Lines 176-184, 204-205: the upsert succeeds; the loop moves to the next
\* batch, or the function returns successful_batches == total_batches.
UpsertSuccess ==
    /\ UpsertFrame
    /\ up_pc = "loop"
    /\ CountUpsertCall
    /\ store' = Upsert(store, PointBatch(points, up_i))
    /\ successful_batches' = successful_batches + 1
    /\ up_i' = up_i + BatchSize(points)
    /\ up_attempt' = 0
    /\ IF up_i + BatchSize(points) < Len(points)
       THEN UNCHANGED <<up_ret, up_pc>>
       ELSE /\ up_ret' = (successful_batches + 1 = TotalBatches(points))
            /\ up_pc' = "done"
    /\ UNCHANGED points

\* Mutant of AfterFailedUpsert: a batch that used up its attempts is
\* skipped and the next batch is sent.
AfterFailedUpsertSkips ==
    /\ CountUpsertCall
    /\ IF RetriesLeft(up_attempt)
       THEN /\ up_attempt' = up_attempt + 1
            /\ UNCHANGED <<up_i, up_ret, up_pc>>
       ELSE /\ up_i' = up_i + BatchSize(points)
            /\ up_attempt' = 0
            /\ IF up_i + BatchSize(points) < Len(points)
               THEN UNCHANGED <<up_ret, up_pc>>
               ELSE /\ up_ret' = FALSE
                    /\ up_pc' = "done"
    /\ UNCHANGED <<store, points, successful_batches>>

\* What follows a failed upsert of the current batch: another attempt, or
\* return False.
AfterFailedUpsert ==
    /\ CountUpsertCall
    /\ IF RetriesLeft(up_attempt)
       THEN /\ up_attempt' = up_attempt + 1
            /\ UNCHANGED <<up_ret, up_pc>>
       ELSE /\ up_ret' = FALSE
            /\ up_pc' = "done"
            /\ UNCHANGED up_attempt
    /\ UNCHANGED <<store, points, up_i, successful_batches>>

\* Lines 185-193: the upsert raises QdrantException.
UpsertQdrantError ==
    /\ UpsertFrame
    /\ up_pc = "loop"
    /\ AfterFailedUpsert

\* Lines 194-202: the upsert raises any other exception.
UpsertUnexpectedError ==
    /\ UpsertFrame
    /\ up_pc = "loop"
    /\ AfterFailedUpsert

UpsertNext ==
    \/ UpsertCall
    \/ UpsertSuccess
    \/ UpsertQdrantError
    \/ UpsertUnexpectedError

----------------------------------------------------------------------------
(* knowledge_base.KnowledgeBase: ingestion *)

\* knowledge_base.py line 29.
MAX_EMBEDDING_BATCH_SIZE == 16

\* config.py line 37: the default of CHUNK_OVERLAP.
CHUNK_OVERLAP == 100

\* The file path documents are added under; texts have no path.
Paths == {<<"a">>}

\* The contents of documents and texts: a document is n chunks of one
\* content.
Contents == {"x", "y"}

\* The chunks DocumentProcessor.chunk_text returns for a text of content c
\* that splits into n chunks: n distinct texts, the content letter followed
\* by the position.
DocChunks(c, n) == [k \in 1 .. n |-> <<c>> \o Digits(k)]

\* chunk_text on a text longer than max_chunk_size returns only when the
\* configured overlap is 0 (otherwise its loop never ends and the list
\* exhausts memory, see SpecChunk); a text of at most one chunk returns.
ChunkingReturns(n, ov) == n <= 1 \/ ov = 0

\* What the remote calls of one get_embeddings call may add up to: success
\* within the attempts, every attempt a rate limit or connection failure, a
\* provider error on the last attempt, an unexpected exception.
EmbedOutcomes ==
    {"ok", "transient_exhausted", "provider_exhausted", "unexpected"}

\* The two outcomes that decide whether a sub-batch gives points.
MainEmbedOutcomes == {"ok", "transient_exhausted"}

\* embeddings.get_embeddings on at most 16 texts (one sub-batch of
\* get_embeddings_batch), for an outcome of its remote calls.
get_embeddings(batch, outcome) ==
    CASE outcome = "ok" -> BatchEmbeddings(batch)
      [] outcome = "transient_exhausted" ->
            AfterTransientFailure(batch, <<>>, max_retries - 1)
      [] outcome = "provider_exhausted" ->
            AfterProviderError(batch, <<>>, max_retries - 1)
      [] outcome = "unexpected" -> Placeholders(batch)

\* Mutant of BatchPoints: each sub-batch reads the clock again, later.
BatchPointsRestamped(batch, embs, metadata, timestamp, i, total_chunks) ==
    [j \in 1 .. Len(batch) |->
        MakePoint(batch[j], embs[j], metadata,
                  timestamp + (i \div MAX_EMBEDDING_BATCH_SIZE), i + j - 1,
                  total_chunks)]

\* Mutant of BatchPoints: the chunks are numbered within their sub-batch.
BatchPointsNumberedInBatch(batch, embs, metadata, timestamp, i, total_chunks) ==
    [j \in 1 .. Len(batch) |->
        MakePoint(batch[j], embs[j], metadata, timestamp, j - 1, total_chunks)]

\* Lines 206-228: the points of a sub-batch that starts at position i.
BatchPoints(batch, embs, metadata, timestamp, i, total_chunks) ==
    [j \in 1 .. Len(batch) |->
        MakePoint(batch[j], embs[j], metadata, timestamp, i + j - 1, total_chunks)]

\* Lines 202-228: a sub-batch whose embedding count differs from its chunk
\* count gives no point.
SubBatchPoints(batch, embs, metadata, timestamp, i, total_chunks) ==
    IF Len(embs) # Len(batch) THEN <<>>
    ELSE BatchPoints(batch, embs, metadata, timestamp, i, total_chunks)

RECURSIVE CollectPoints(_, _, _, _, _)
\* Lines 191-240: all_points, built sub-batch by sub-batch from position i;
\* outcomes[b] is the outcome of the embedding calls of sub-batch b.
CollectPoints(chs, i, metadata, timestamp, outcomes) ==
    IF i >= Len(chs) THEN <<>>
    ELSE LET batch == Slice(chs, i, i + MAX_EMBEDDING_BATCH_SIZE)
             embs == get_embeddings(batch, outcomes[(i \div MAX_EMBEDDING_BATCH_SIZE) + 1])
         IN  SubBatchPoints(batch, embs, metadata, timestamp, i, Len(chs))
             \o CollectPoints(chs, i + MAX_EMBEDDING_BATCH_SIZE, metadata,
                              timestamp, outcomes)

\* Line 194: the number of sub-batches of n chunks.
EmbeddingBatches(n) == ((n - 1) \div MAX_EMBEDDING_BATCH_SIZE) + 1

\* VectorStore.add_points as one step: fail_at is the number of the batch
\* whose upsert fails MAX_RETRIES times (0: none).  The batches before it
\* are committed.
AddPointsStore(st, pts, fail_at) ==
    IF fail_at = 0 THEN Upsert(st, pts)
    ELSE Upsert(st, Slice(pts, 0, (fail_at - 1) * BatchSize(pts)))

\* The value add_points returns.
AddPointsOk(pts, fail_at) == fail_at = 0

\* Mutant of IngestResult: the count of chunks is reported, not of points.
IngestResultAllChunks(chs, pts, fail_at) ==
    IF pts = <<>> THEN <<FALSE, 0>>
    ELSE IF AddPointsOk(pts, fail_at) THEN <<TRUE, Len(chs)>>
    ELSE <<FALSE, 0>>

\* Mutant of IngestResult: the answer of add_points is not looked at.
IngestResultIgnoringUpsert(chs, pts, fail_at) ==
    IF pts = <<>> THEN <<FALSE, 0>> ELSE <<TRUE, Len(pts)>>

\* Lines 242-255: what _process_chunks returns.
IngestResult(chs, pts, fail_at) ==
    IF pts = <<>> THEN <<FALSE, 0>>
    ELSE IF AddPointsOk(pts, fail_at) THEN <<TRUE, Len(pts)>>
    ELSE <<FALSE, 0>>

\* KnowledgeBase._process_chunks, lines 180-260, on a non-empty list of
\* chunks: one timestamp is read, the points are built and upserted.
ProcessChunks(chs, metadata, outcomes, fail_at) ==
    LET pts == CollectPoints(chs, 0, metadata, clock, outcomes)
    IN  /\ store' = IF pts = <<>> THEN store ELSE AddPointsStore(store, pts, fail_at)
        /\ kb_ret' = IngestResult(chs, pts, fail_at)

\* The call returns (False, 0) without touching the store.
IngestFails ==
    /\ store' = store
    /\ kb_ret' = <<FALSE, 0>>

\* Mutant of ChunkAndProcess: a text of no chunks is processed as one empty
\* chunk.
ChunkAndProcessEmpty(c, n, metadata, outcomes, fail_at) ==
    IF ~ChunkingReturns(n, chunk_overlap) THEN IngestFails
    ELSE IF n = 0 THEN ProcessChunks(<<<<>>>>, metadata, <<"ok">>, fail_at)
    ELSE ProcessChunks(DocChunks(c, n), metadata, outcomes, fail_at)

\* Lines 110-119, 148-157: the text is chunked (which may raise), an empty
\* list of chunks is refused, the chunks are processed.
ChunkAndProcess(c, n, metadata, outcomes, fail_at) ==
    IF ~ChunkingReturns(n, chunk_overlap) \/ n = 0
    THEN IngestFails
    ELSE ProcessChunks(DocChunks(c, n), metadata, outcomes, fail_at)

\* The book-keeping of an ingestion call.
IngestCalled(op, args) ==
    /\ calls < MaxCalls
    /\ calls' = calls + 1
    /\ kb_op' = op
    /\ kb_args' = args
    /\ kb_again' = (kb_op = op /\ kb_args = args)
    /\ limit' = 0
    /\ hits' = <<>>
    /\ results' = <<>>
    /\ scrolled' = {}
    /\ versions' = <<>>
    /\ UNCHANGED <<clock, chunk_overlap>>

\* The points an ingestion call builds from content c of n chunks.
IngestPoints(c, n, metadata, outcomes) ==
    IF ~ChunkingReturns(n, chunk_overlap) \/ n = 0 THEN <<>>
    ELSE CollectPoints(DocChunks(c, n), 0, metadata, clock, outcomes)

\* The upsert batch of add_points that may fail MAX_RETRIES times (0: none
\* fails); add_points is not called without points.
FailAts(pts) == IF pts = <<>> THEN {0} ELSE 0 .. TotalBatches(pts)

\* KnowledgeBase.add_document, lines 84-123, for a file of content c that
\* splits into at most max_n chunks.
AddDocumentOf(max_n, embed_outcomes) ==
    \E path \in Paths, c \in Contents, n \in 0 .. max_n :
      \E outcomes \in [1 .. EmbeddingBatches(n) -> embed_outcomes] :
        LET metadata == [type |-> "document", path |-> path]
        IN  \E fail_at \in FailAts(IngestPoints(c, n, metadata, outcomes)) :
              /\ IngestCalled("add_document",
                              [kind |-> "read", content |-> c, n |-> n,
                               outcomes |-> outcomes, fail_at |-> fail_at,
                               timestamp |-> clock, metadata |-> metadata])
              /\ ChunkAndProcess(c, n, metadata, outcomes, fail_at)

\* KnowledgeBase.add_document, lines 109, 120-123: read_file raises
\* FileNotFoundError or ValueError (file over the size ceiling).
AddDocumentUnreadable ==
    /\ KbFrame
    /\ IngestCalled("add_document", [kind |-> "unreadable"])
    /\ IngestFails

\* KnowledgeBase.add_text, lines 125-161, for a text of content c that
\* splits into at most max_n chunks.
AddTextOf(max_n, embed_outcomes) ==
    \E c \in Contents, n \in 0 .. max_n :
      \E outcomes \in [1 .. EmbeddingBatches(n) -> embed_outcomes] :
        LET metadata == [type |-> "text"]
        IN  \E fail_at \in FailAts(IngestPoints(c, n, metadata, outcomes)) :
              /\ IngestCalled("add_text",
                              [kind |-> "read", content |-> c, n |-> n,
                               outcomes |-> outcomes, fail_at |-> fail_at,
                               timestamp |-> clock, metadata |-> metadata])
              /\ ChunkAndProcess(c, n, metadata, outcomes, fail_at)

AddDocument ==
    /\ KbFrame
    /\ AddDocumentOf(MaxDocChunks, MainEmbedOutcomes)

AddText ==
    /\ KbFrame
    /\ AddTextOf(MaxDocChunks, MainEmbedOutcomes)

\* The single ingestion call of SpecIngest, on a long document.
AddLongDocument ==
    /\ KbFrame
    /\ calls = 0
    /\ AddDocumentOf(MaxLongChunks, EmbedOutcomes)

\* The single ingestion call of SpecIngest, on a long text.
AddLongText ==
    /\ KbFrame
    /\ calls = 0
    /\ AddTextOf(MaxLongChunks, EmbedOutcomes)

\* A second passes.
Tick ==
    /\ KbFrame
    /\ clock < MaxClock
    /\ clock' = clock + 1
    /\ UNCHANGED <<store, chunk_overlap, calls, kb_op, kb_args, kb_ret,
                   kb_again, limit, hits, results, scrolled, versions>>

KbInit ==
    /\ store = {}
    /\ clock = 1
    /\ chunk_overlap \in {0, CHUNK_OVERLAP}
    /\ calls = 0
    /\ kb_op = "none"
    /\ kb_args = [kind |-> "none"]
    /\ kb_ret = <<FALSE, 0>>
    /\ kb_again = FALSE
    /\ limit = 0
    /\ hits = <<>>
    /\ results = <<>>
    /\ scrolled = {}
    /\ versions = <<>>

KbIdle ==
    /\ clock = 1
    /\ chunk_overlap = CHUNK_OVERLAP
    /\ calls = 0
    /\ kb_op = "none"
    /\ kb_args = [kind |-> "none"]
    /\ kb_ret = <<FALSE, 0>>
    /\ kb_again = FALSE
    /\ limit = 0
    /\ hits = <<>>
    /\ results = <<>>
    /\ scrolled = {}
    /\ versions = <<>>

----------------------------------------------------------------------------
(* vector_store.VectorStore.query and KnowledgeBase.query *)

\* vector_store.py line 265: score_threshold = 0.5, in tenths.
SCORE_THRESHOLD == 5

\* The query texts.
Queries == {"q1", "q2"}

\* The cosine similarity, in tenths, of the embedding of query q and the
\* embedding of a chunk text t: a function of the two texts.  q1 is about
\* content x, q2 about content y; the first chunks of a document match
\* best.
Similarity(q, t) ==
    CASE q = "q1" /\ t = <<"x", "1">> -> 9
      [] q = "q1" /\ t = <<"x", "2">> -> 8
      [] q = "q1" /\ t = <<"y", "1">> -> 7
      [] q = "q1" /\ t = <<"y", "2">> -> 4
      [] q = "q2" /\ t = <<"x", "1">> -> 4
      [] q = "q2" /\ t = <<"x", "2">> -> 6
      [] q = "q2" /\ t = <<"y", "1">> -> 9
      [] q = "q2" /\ t = <<"y", "2">> -> 8
      [] OTHER -> IF q = "q1" THEN 6 ELSE 3

\* The score of a stored point for a query: a zero vector (a placeholder)
\* is similar to nothing.
Score(q, p) ==
    IF p.vector.kind = "embedding" THEN Similarity(q, p.vector.of) ELSE 0

\* A ScoredPoint of client.search.
Hit(q, p) == [id |-> p.id, score |-> Score(q, p), payload |-> p.payload]

RECURSIVE RankedLists(_, _)
\* The lists of the n best hits of a set that the database may return: by
\* score descending, hits of equal score in any order.
RankedLists(S, n) ==
    IF S = {} \/ n = 0 THEN {<<>>}
    ELSE LET best == {h \in S : \A g \in S : g.score <= h.score}
         IN  UNION {{<<h>> \o r : r \in RankedLists(S \ {h}, n - 1)} : h \in best}

\* Line 262: the number of hits asked for.
SearchLimit(lim, latest_only) == IF latest_only THEN lim * 3 ELSE lim

\* Lines 259-266: client.search without a filter: the n best points whose
\* score reaches the threshold.
SearchResults(st, q, n) ==
    RankedLists({h \in {Hit(q, p) : p \in st} : h.score >= SCORE_THRESHOLD}, n)

\* Mutant of HitPath: a hit without a path is grouped under its own text.
HitPathPerText(h) ==
    IF "path" \in DOMAIN h.payload.metadata THEN h.payload.metadata.path
    ELSE h.payload.text

\* Lines 279-280: metadata.get("path", "unknown").
HitPath(h) ==
    IF "path" \in DOMAIN h.payload.metadata THEN h.payload.metadata.path
    ELSE <<"u", "n", "k", "n", "o", "w", "n">>

\* Mutant of Supersedes: the older hit wins.
SupersedesOlder(timestamp, existing_timestamp) == timestamp < existing_timestamp

\* Line 294: the hit replaces the one kept for its path.
Supersedes(timestamp, existing_timestamp) == timestamp > existing_timestamp

\* The position in path_groups of the entry of a path, or 0.
GroupIndex(groups, path) ==
    IF \E k \in 1 .. Len(groups) : groups[k].path = path
    THEN CHOOSE k \in 1 .. Len(groups) : groups[k].path = path
    ELSE 0

RECURSIVE GroupByPath(_, _, _)
\* Lines 274-295: path_groups (a dict, which keeps the order in which its
\* keys were first inserted) after the hits from position k on.
GroupByPath(hs, k, groups) ==
    IF k > Len(hs) THEN groups
    ELSE LET h == hs[k]
             at == GroupIndex(groups, HitPath(h))
         IN  GroupByPath(hs, k + 1,
                 IF at = 0 THEN Append(groups, [path |-> HitPath(h), hit |-> h])
                 ELSE IF Supersedes(h.payload.timestamp,
                                    groups[at].hit.payload.timestamp)
                      THEN [groups EXCEPT ![at].hit = h]
                      ELSE groups)

\* sorted(..., reverse=True) puts x after the elements whose score is at
\* least its own (the sort is stable).
InsertByScore(sorted, x) ==
    LET before == Cardinality({k \in 1 .. Len(sorted) : sorted[k].score >= x.score})
    IN  SubSeq(sorted, 1, before) \o <<x>> \o SubSeq(sorted, before + 1, Len(sorted))

RECURSIVE SortByScore(_)
\* Line 298: sorted(path_groups.values(), key=score, reverse=True).
SortByScore(hs) ==
    IF hs = <<>> THEN <<>>
    ELSE InsertByScore(SortByScore(SubSeq(hs, 1, Len(hs) - 1)), hs[Len(hs)])

\* Mutant of LatestOnly: the sorted hits are not cut at the limit.
LatestOnlyUntruncated(hs, lim) ==
    LET groups == GroupByPath(hs, 1, <<>>)
    IN  SortByScore([k \in 1 .. Len(groups) |-> groups[k].hit])

\* Lines 271-299: the hits that survive latest-only filtering.
LatestOnly(hs, lim) ==
    LET groups == GroupByPath(hs, 1, <<>>)
    IN  Slice(SortByScore([k \in 1 .. Len(groups) |-> groups[k].hit]), 0, lim)

\* Lines 303-319: a result of the query.
FormatResult(h) ==
    [text |-> h.payload.text,
     metadata |-> h.payload.metadata,
     score |-> h.score,
     timestamp |-> h.payload.timestamp,
     version_date |-> h.payload.version_date,
     chunk_index |-> h.payload.chunk_index,
     total_chunks |-> h.payload.total_chunks]

\* Lines 270-321 with latest_only.
QueryResults(hs, lim) ==
    LET kept == LatestOnly(hs, lim)
    IN  [k \in 1 .. Len(kept) |-> FormatResult(kept[k])]

\* The book-keeping of a query: how client.search answered and the kind of
\* query vector it was called with.
QueryCalledWith(lim, search, vector) ==
    /\ kb_op' = "query"
    /\ kb_args' = [kind |-> "query", search |-> search, vector |-> vector]
    /\ kb_ret' = <<FALSE, 0>>
    /\ kb_again' = FALSE
    /\ limit' = lim
    /\ scrolled' = {}
    /\ versions' = <<>>
    /\ UNCHANGED <<store, clock, chunk_overlap, calls>>

\* A query whose text was embedded by the provider.
QueryCalled(lim, search) == QueryCalledWith(lim, search, "embedding")

\* KnowledgeBase.query (lines 335-365) and VectorStore.query (lines
\* 228-321): the query is embedded, the database is searched, the hits
\* are filtered to the latest version of each path and formatted.
QueryUpTo(max_limit) ==
    \E q \in Queries, lim \in 1 .. max_limit :
       \E hs \in SearchResults(store, q, SearchLimit(lim, TRUE)) :
         /\ QueryCalled(lim, "ok")
         /\ hits' = hs
         /\ results' = QueryResults(hs, lim)

Query ==
    /\ KbFrame
    /\ QueryUpTo(MaxLimit)

\* The content ingested under a metadata: document a is about x, document
\* b and the texts are about y.
ContentOf(metadata) ==
    IF "path" \in DOMAIN metadata /\ metadata.path = <<"a">> THEN "x" ELSE "y"

\* The ingestion calls a queried collection comes from, as <<metadata,
\* timestamp>>: document a was ingested twice, document b once, and there
\* were two add_text calls.
QueryVersions ==
    {<<[type |-> "document", path |-> <<"a">>], 1>>,
     <<[type |-> "document", path |-> <<"a">>], 2>>,
     <<[type |-> "document", path |-> <<"b">>], 1>>,
     <<[type |-> "text"], 1>>,
     <<[type |-> "text"], 2>>}

\* The points a successful ingestion call of n chunks at timestamp t
\* stores (knowledge_base.py 186-252).
IngestedVersion(metadata, t, n) ==
    IF n = 0 THEN {}
    ELSE Range(CollectPoints(DocChunks(ContentOf(metadata), n), 0, metadata, t,
                             [b \in 1 .. EmbeddingBatches(n) |-> "ok"]))

\* The collections these ingestion calls leave: each call stored nothing
\* (it failed or was not made) or a version of up to MaxQueryChunks chunks.
QueriedStores ==
    {UNION {IngestedVersion(v[1], v[2], sizes[v]) : v \in QueryVersions} :
        sizes \in [QueryVersions -> 0 .. MaxQueryChunks]}

\* The one query of SpecQuery, with a limit up to MaxQueryLimit.
QueryStored ==
    /\ KbFrame
    /\ kb_op = "none"
    /\ QueryUpTo(MaxQueryLimit)

\* Mutant of QuerySearchFails: the failure is not answered with the empty
\* list; the caller is left with the results of the query before.
QuerySearchFailsKeepsResults ==
    /\ KbFrame
    /\ \E lim \in 1 .. MaxLimit :
           /\ QueryCalled(lim, "error")
           /\ UNCHANGED <<hits, results>>

\* VectorStore.query, lines 259-266 and 322-325: client.search raises and
\* the query returns the empty list.
QuerySearchFails ==
    /\ KbFrame
    /\ \E lim \in 1 .. MaxLimit :
           /\ QueryCalled(lim, "error")
           /\ hits' = <<>>
           /\ results' = <<>>

\* VectorStore.query, lines 232-236, and embeddings.get_embedding, lines
\* 201-217: embedding the query fails inside the generator (retries used
\* up, provider error, unexpected exception); the module-level
\* get_embedding catches the exception and returns the zero vector, so the
\* handler of line 234 is not entered and client.search is called with the
\* zero vector.  No stored point scores against it, or the database
\* rejects it: either way the query returns the empty list.
QueryEmbeddingFails ==
    /\ KbFrame
    /\ \E lim \in 1 .. MaxLimit, search \in {"ok", "error"} :
           /\ QueryCalledWith(lim, search, "zero")
           /\ hits' = <<>>
           /\ results' = <<>>

----------------------------------------------------------------------------
(* vector_store.VectorStore.get_document_versions *)

\* vector_store.py line 356: limit=100 of client.scroll.
SCROLL_LIMIT == 100

\* The paths whose versions are asked for: the ingested path and a path
\* that was never ingested.
VersionPaths == Paths \cup {<<"b">>}

RECURSIVE KSubsets(_, _)
\* The subsets of S that have k elements.
KSubsets(S, k) ==
    IF k = 0 THEN {{}}
    ELSE IF S = {} THEN {}
    ELSE LET x == CHOOSE y \in S : TRUE
         IN  {T \cup {x} : T \in KSubsets(S \ {x}, k - 1)}
             \cup KSubsets(S \ {x}, k)

\* Lines 343-350: the points whose metadata.path is the path.
PathMatches(st, path) ==
    {p \in st : /\ "path" \in DOMAIN p.payload.metadata
                /\ p.payload.metadata.path = path}

\* Lines 353-361: the first page of client.scroll: at most 100 of the
\* matching points.  The database pages in the order of the point ids,
\* which are hashes: any 100 of the matching points may come first.
ScrollPages(st, path) ==
    LET match == PathMatches(st, path)
    IN  IF Cardinality(match) <= SCROLL_LIMIT THEN {match}
        ELSE {match \ out :
                 out \in KSubsets(match, Cardinality(match) - SCROLL_LIMIT)}

\* Lines 370-372: the points that stand for a version: a truthy timestamp
\* and chunk_index 0.
VersionPoints(page) ==
    {p \in page : p.payload.timestamp # 0 /\ p.payload.chunk_index = 0}

\* Lines 365-372: the dict `versions`, as the set of its items
\* <<timestamp, version_date>>; a timestamp is a key once.
VersionItems(page) ==
    {<<t, (CHOOSE p \in VersionPoints(page) : p.payload.timestamp = t).payload.version_date>> :
        t \in {p.payload.timestamp : p \in VersionPoints(page)}}

\* Mutant of ComesFirst: oldest first.
ComesFirstAscending(a, b) == a[1] < b[1]

\* Line 375: sorted(..., reverse=True) puts the greater item first.
ComesFirst(a, b) == a[1] > b[1]

RECURSIVE SortedItems(_)
\* Line 375: the items in sorted order.
SortedItems(items) ==
    IF items = {} THEN <<>>
    ELSE LET first == CHOOSE a \in items :
                          \A b \in items \ {a} : ComesFirst(a, b)
         IN  <<first>> \o SortedItems(items \ {first})

\* The book-keeping of a get_document_versions call.
VersionsCalled(path, scroll) ==
    /\ kb_op' = "get_document_versions"
    /\ kb_args' = [kind |-> "path", path |-> path, scroll |-> scroll]
    /\ kb_ret' = <<FALSE, 0>>
    /\ kb_again' = FALSE
    /\ limit' = 0
    /\ hits' = <<>>
    /\ results' = <<>>
    /\ UNCHANGED <<store, clock, chunk_overlap, calls>>

\* KnowledgeBase.get_document_versions (lines 367-390) and
\* VectorStore.get_document_versions (lines 339-377).
GetDocumentVersions ==
    /\ KbFrame
    /\ \E path \in VersionPaths :
         \E page \in ScrollPages(store, path) :
           /\ VersionsCalled(path, "ok")
           /\ scrolled' = page
           /\ versions' = SortedItems(VersionItems(page))

\* Lines 353-359, 378-381: client.scroll raises and the call returns the
\* empty list.
GetDocumentVersionsFails ==
    /\ KbFrame
    /\ \E path \in VersionPaths :
           /\ VersionsCalled(path, "error")
           /\ scrolled' = {}
           /\ versions' = <<>>

\* An ingestion call of SpecVersions, on a document of several chunks.
AddChunkedDocument ==
    /\ KbFrame
    /\ AddDocumentOf(MaxVersionChunks, MainEmbedOutcomes)

\* The single ingestion call of SpecScroll, on a document of more chunks
\* than a page of client.scroll holds, every embedding call succeeding.
AddLargeDocument ==
    /\ KbFrame
    /\ calls = 0
    /\ AddDocumentOf(MaxLargeChunks, {"ok"})

KbNext ==
    \/ Tick
    \/ AddDocument
    \/ AddText
    \/ AddDocumentUnreadable
    \/ Query
    \/ QuerySearchFails
    \/ QueryEmbeddingFails

----------------------------------------------------------------------------
(* vector_store.VectorStore.create_collection *)

\* The names a caller gives a collection.
CollectionNames == {"kb", "docs"}

\* Lines 112-128: the payload indexes, in the order they are created.
IndexFields == <<"metadata.type", "metadata.path", "timestamp">>

\* The exceptions a call of the database client ends with.  The client
\* library raises classes of its own; the class UnexpectedResponse of
\* vector_store.py (lines 21-23) is defined by the module for itself and is
\* not a base of any of them.
AlreadyExists ==
    [class |-> "qdrant_client.UnexpectedResponse", message |-> "already exists"]

ConnectionFailed ==
    [class |-> "qdrant_client.ResponseHandlingException", message |-> "refused"]

\* `except UnexpectedResponse` (line 134): the clause catches instances of the class of lines 21-23 only.
IsUnexpectedResponse(error) == error.class = "vector_store.UnexpectedResponse"

\* Lines 134-144: the value returned when the creation raised this error.
CreateFailed(error) ==
    IF IsUnexpectedResponse(error)
    THEN error.message = "already exists"
    ELSE FALSE

\* Lines 89-95: with force the collection is deleted first; an error of the
\* deletion is logged and ignored.
AfterForce(name, force, deleted) ==
    IF force /\ deleted THEN collections \ {name} ELSE collections

IndexesAfterForce(name, force, deleted) ==
    IF force /\ deleted THEN {ix \in indexes : ix[1] # name} ELSE indexes

\* Lines 110-131: the indexes created before the first failure, if any.
CreatedIndexes(name, k) == {<<name, IndexFields[j]>> : j \in 1 .. k}

\* No create_collection call has been made on an empty database.
CollIdle ==
    /\ collections = {}
    /\ indexes = {}
    /\ cc_call = [kind |-> "none"]
    /\ cc_ret = "none"

\* The book-keeping of a create_collection call.
CreateCalled(name, force, answer) ==
    cc_call' = [kind |-> "create_collection", name |-> name, force |-> force,
                answer |-> answer]

\* Lines 88-132: the database creates the collection; index errors are
\* ignored.
CreateCollection ==
    /\ CollFrame
    /\ \E name \in CollectionNames, force \in BOOLEAN, deleted \in BOOLEAN,
          k \in 0 .. Len(IndexFields) :
           /\ deleted => (force /\ name \in collections)
           /\ name \notin AfterForce(name, force, deleted)
           /\ collections' = AfterForce(name, force, deleted) \cup {name}
           /\ indexes' = IndexesAfterForce(name, force, deleted)
                            \cup CreatedIndexes(name, k)
           /\ CreateCalled(name, force, "created")
           /\ cc_ret' = TRUE

\* Lines 97-103, 134-144: the database rejects the creation because the
\* collection exists.
CreateCollectionExists ==
    /\ CollFrame
    /\ \E name \in CollectionNames, force \in BOOLEAN :
           /\ name \in AfterForce(name, force, FALSE)
           /\ CreateCalled(name, force, AlreadyExists.message)
           /\ cc_ret' = CreateFailed(AlreadyExists)
           /\ UNCHANGED <<collections, indexes>>

\* Lines 97-103, 141-144: the creation fails for another reason.
CreateCollectionFails ==
    /\ CollFrame
    /\ \E name \in CollectionNames, force \in BOOLEAN, deleted \in BOOLEAN :
           /\ deleted => (force /\ name \in collections)
           /\ collections' = AfterForce(name, force, deleted)
           /\ indexes' = IndexesAfterForce(name, force, deleted)
           /\ CreateCalled(name, force, ConnectionFailed.message)
           /\ cc_ret' = CreateFailed(ConnectionFailed)

CollNext ==
    \/ CreateCollection
    \/ CreateCollectionExists
    \/ CreateCollectionFails

----------------------------------------------------------------------------
(* versioning.VersionManager.create_versioned_id, called on its own *)

\* The characters of a path: a letter, the separator of the name, a digit.
PathAlphabet == {"a", "_", "1"}

\* The triples a caller identifies.
IdTriples ==
    [path : SeqsUpTo(PathAlphabet, MaxPathLen),
     timestamp : 0 .. MaxIdNumber,
     chunk_index : 0 .. MaxIdNumber]

IdIdle ==
    /\ vid_args = [path |-> <<>>, timestamp |-> 0, chunk_index |-> 0]
    /\ vid_id = [namespace |-> "none", name |-> <<>>]
    /\ vid_pc = "idle"

IdInit ==
    /\ vid_args \in IdTriples
    /\ vid_id = [namespace |-> "none", name |-> <<>>]
    /\ vid_pc = "call"

\* Lines 122-138: the call returns the identifier of its arguments.
CreateVersionedId ==
    /\ IdFrame
    /\ vid_pc = "call"
    /\ vid_id' = create_versioned_id(vid_args.path, vid_args.timestamp,
                                     vid_args.chunk_index)
    /\ vid_pc' = "done"
    /\ UNCHANGED vid_args

\* Lines 108-120: get_versioned_id, the alias that passes its arguments on.
GetVersionedId ==
    /\ IdFrame
    /\ vid_pc = "call"
    /\ vid_id' = create_versioned_id(vid_args.path, vid_args.timestamp,
                                     vid_args.chunk_index)
    /\ vid_pc' = "done"
    /\ UNCHANGED vid_args

IdNext ==
    \/ CreateVersionedId
    \/ GetVersionedId

----------------------------------------------------------------------------
(* knowledge_base.KnowledgeBase.add_directory *)

\* config.py line 40.
DEFAULT_FILE_EXTENSIONS ==
    {<<".", "p", "y">>, <<".", "j", "s">>, <<".", "t", "s">>,
     <<".", "t", "s", "x">>, <<".", "j", "s", "x">>, <<".", "m", "d">>,
     <<".", "h", "t", "m", "l">>, <<".", "c", "s", "s">>,
     <<".", "j", "s", "o", "n">>, <<".", "y", "a", "m", "l">>,
     <<".", "y", "m", "l">>}

\* The files of the directories walked: two with an extension of the
\* default list, one with another extension.
FileNames ==
    {<<"a", ".", "p", "y">>, <<"b", ".", "m", "d">>, <<"c", ".", "t", "x", "t">>}

\* The values of the parameter extensions: None, the empty list, a list.
ExtensionArgs ==
    {[given |-> FALSE, list |-> {}],
     [given |-> TRUE, list |-> {}],
     [given |-> TRUE, list |-> {<<".", "m", "d">>}]}

\* str.endswith.
EndsWith(s, suffix) ==
    /\ Len(s) >= Len(suffix)
    /\ SubSeq(s, Len(s) - Len(suffix) + 1, Len(s)) = suffix

\* Line 299: extensions and not any(file.endswith(ext) for ext in extensions).
Skipped(file, extensions) ==
    /\ extensions.given
    /\ extensions.list # {}
    /\ ~\E ext \in extensions.list : EndsWith(file, ext)

\* Lines 305-307: the metadata add_document is called with (which adds type
\* and path, lines 100-101).
FileMetadata(file) ==
    [type |-> "document", path |-> file, directory |-> <<"d">>,
     relative_path |-> file]

\* The store after add_document on a file of content c and n chunks.
DocumentStore(c, n, metadata, outcomes, fail_at) ==
    LET pts == IngestPoints(c, n, metadata, outcomes)
    IN  IF pts = <<>> THEN store ELSE AddPointsStore(store, pts, fail_at)

\* What add_document returns on a file of content c and n chunks.
DocumentResult(c, n, metadata, outcomes, fail_at) ==
    IF ~ChunkingReturns(n, chunk_overlap) \/ n = 0 THEN <<FALSE, 0>>
    ELSE IngestResult(DocChunks(c, n),
                      IngestPoints(c, n, metadata, outcomes), fail_at)

RECURSIVE WalkOrders(_, _)
\* The lists of at most n distinct files of S.
WalkOrders(S, n) ==
    IF n = 0 THEN {<<>>}
    ELSE {<<>>} \cup
         UNION {{<<f>> \o rest : rest \in WalkOrders(S \ {f}, n - 1)} : f \in S}

DirIdle ==
    /\ dir_exists = FALSE
    /\ dir_files = <<>>
    /\ dir_extensions = [given |-> FALSE, list |-> {}]
    /\ dir_k = 0
    /\ dir_log = <<>>
    /\ dir_total_chunks = 0
    /\ successful_files = 0
    /\ failed_files = 0
    /\ skipped_files = 0
    /\ dir_ret = <<FALSE, 0>>
    /\ dir_pc = "idle"

DirInit ==
    /\ dir_exists \in BOOLEAN
    /\ dir_files \in WalkOrders(FileNames, MaxFiles)
    /\ dir_extensions \in ExtensionArgs
    /\ dir_k = 0
    /\ dir_log = <<>>
    /\ dir_total_chunks = 0
    /\ successful_files = 0
    /\ failed_files = 0
    /\ skipped_files = 0
    /\ dir_ret = <<FALSE, 0>>
    /\ dir_pc = "call"

\* Lines 284-286: the directory does not exist.
DirNotFound ==
    /\ DirFrame
    /\ dir_pc = "call"
    /\ ~dir_exists
    /\ dir_pc' = "done"
    /\ dir_ret' = <<FALSE, 0>>
    /\ UNCHANGED <<store, dir_exists, dir_files, dir_extensions, dir_k, dir_log,
                   dir_total_chunks, successful_files, failed_files,
                   skipped_files>>

\* Lines 288-294: the counters are set and the walk starts.
DirWalk ==
    /\ DirFrame
    /\ dir_pc = "call"
    /\ dir_exists
    /\ dir_pc' = "walk"
    /\ UNCHANGED <<store, dir_exists, dir_files, dir_extensions, dir_k, dir_log,
                   dir_total_chunks, successful_files, failed_files,
                   skipped_files, dir_ret>>

\* The file the loop is at.
CurrentFile == dir_files[dir_k + 1]

\* The loop has dealt with the current file.
FileDone(status, chunks_added) ==
    /\ dir_k' = dir_k + 1
    /\ dir_log' = Append(dir_log, [file |-> CurrentFile, status |-> status,
                                   chunks |-> chunks_added])
    /\ UNCHANGED <<dir_exists, dir_files, dir_extensions, dir_ret, dir_pc>>

\* Lines 299-302: the file is skipped.
DirSkipFile ==
    /\ DirFrame
    /\ dir_pc = "walk"
    /\ dir_k < Len(dir_files)
    /\ Skipped(CurrentFile, dir_extensions)
    /\ skipped_files' = skipped_files + 1
    /\ FileDone("skipped", 0)
    /\ UNCHANGED <<store, dir_total_chunks, successful_files, failed_files>>

\* The inputs of one add_document call of the walk: a file that cannot be
\* read, or its content, chunks and the outcomes of its remote calls.
FileReads ==
    {[kind |-> "unreadable"]} \cup
    UNION {UNION {{[kind |-> "read", content |-> c, n |-> n,
                    outcomes |-> outcomes, fail_at |-> fail_at]
                      : fail_at \in FailAts(IngestPoints(c, n,
                                     FileMetadata(CurrentFile), outcomes))}
                  : outcomes \in [1 .. EmbeddingBatches(n) -> MainEmbedOutcomes]}
           : c \in {"x"}, n \in 0 .. MaxFileChunks}

\* The store after the add_document call of the walk.
FileStore(r) ==
    IF r.kind = "unreadable" THEN store
    ELSE DocumentStore(r.content, r.n, FileMetadata(CurrentFile), r.outcomes,
                       r.fail_at)

\* What the add_document call of the walk returns.
FileResult(r) ==
    IF r.kind = "unreadable" THEN <<FALSE, 0>>
    ELSE DocumentResult(r.content, r.n, FileMetadata(CurrentFile), r.outcomes,
                        r.fail_at)

\* Lines 309-319: add_document succeeds on the file.
DirFileAdded ==
    /\ DirFrame
    /\ dir_pc = "walk"
    /\ dir_k < Len(dir_files)
    /\ ~Skipped(CurrentFile, dir_extensions)
    /\ \E r \in FileReads :
          /\ FileResult(r)[1]
          /\ store' = FileStore(r)
          /\ dir_total_chunks' = dir_total_chunks + FileResult(r)[2]
          /\ successful_files' = successful_files + 1
          /\ FileDone("successful", FileResult(r)[2])
    /\ UNCHANGED <<failed_files, skipped_files>>

\* Mutant of DirFileFailed: a file that fails ends the walk.
DirFileFailedStops ==
    /\ DirFrame
    /\ dir_pc = "walk"
    /\ dir_k < Len(dir_files)
    /\ ~Skipped(CurrentFile, dir_extensions)
    /\ \E r \in FileReads :
          /\ ~FileResult(r)[1]
          /\ store' = FileStore(r)
          /\ failed_files' = failed_files + 1
          /\ dir_k' = Len(dir_files)
          /\ dir_log' = Append(dir_log, [file |-> CurrentFile,
                                         status |-> "failed", chunks |-> 0])
          /\ UNCHANGED <<dir_exists, dir_files, dir_extensions, dir_ret, dir_pc>>
    /\ UNCHANGED <<dir_total_chunks, successful_files, skipped_files>>

\* Lines 309-322: add_document fails on the file.
DirFileFailed ==
    /\ DirFrame
    /\ dir_pc = "walk"
    /\ dir_k < Len(dir_files)
    /\ ~Skipped(CurrentFile, dir_extensions)
    /\ \E r \in FileReads :
          /\ ~FileResult(r)[1]
          /\ store' = FileStore(r)
          /\ failed_files' = failed_files + 1
          /\ FileDone("failed", 0)
    /\ UNCHANGED <<dir_total_chunks, successful_files, skipped_files>>

\* Lines 327-333: the walk is over and the counts are returned.
DirReturn ==
    /\ DirFrame
    /\ dir_pc = "walk"
    /\ dir_k = Len(dir_files)
    /\ dir_ret' = <<successful_files > 0, dir_total_chunks>>
    /\ dir_pc' = "done"
    /\ UNCHANGED <<store, dir_exists, dir_files, dir_extensions, dir_k, dir_log,
                   dir_total_chunks, successful_files, failed_files,
                   skipped_files>>

DirNext ==
    \/ DirNotFound
    \/ DirWalk
    \/ DirSkipFile
    \/ DirFileAdded
    \/ DirFileFailed
    \/ DirReturn

----------------------------------------------------------------------------
(* cli.main and the command handlers *)

\* The commands whose handlers call the knowledge base.
Commands ==
    {"create-collection", "list-collections", "add", "add-directory",
     "add-text", "query", "versions"}

\* The commands that take JSON (metadata or filters) or a path that is
\* validated before the knowledge base is called.
ValidatingCommands == {"add", "add-directory", "add-text", "query"}

\* The command lines: the command, --verbose, --force, and whether the
\* validated arguments are valid.
CliArgs ==
    {a \in [command : Commands, verbose : BOOLEAN, force : BOOLEAN,
            valid : BOOLEAN] :
        /\ a.force => a.command = "create-collection"
        /\ ~a.valid => a.command \in ValidatingCommands}

\* What can go wrong while a command runs: the vector database fails, the
\* embedding calls fail (every attempt a rate limit or connection failure;
\* or a provider error on the last attempt), the user interrupts.
CommandFaults(command) ==
    {"none", "interrupt", "database"} \cup
    IF command \in {"add", "add-directory", "add-text", "query"}
    THEN {"transient_exhausted", "provider_exhausted"} ELSE {}

\* The faults a handler or the knowledge base catches.
HandledFaults == {"database", "transient_exhausted", "provider_exhausted"}

\* The file or text a command ingests.
CliMetadata(command) ==
    IF command = "add-text" THEN [type |-> "text"]
    ELSE IF command = "add" THEN [type |-> "document", path |-> <<"a">>]
    ELSE FileMetadata(<<"a", ".", "m", "d">>)

\* The outcome of the embedding calls of an ingestion under a fault.
CliOutcomes(fault) ==
    [b \in 1 .. 1 |-> IF fault \in {"transient_exhausted", "provider_exhausted"}
                      THEN fault ELSE "ok"]

\* The upsert batch that fails under a fault.
CliFailAt(fault) == IF fault = "database" THEN 1 ELSE 0

\* add_document / add_text on one chunk under a fault: the value returned.
CliIngestResult(command, fault) ==
    DocumentResult("x", 1, CliMetadata(command), CliOutcomes(fault),
                   CliFailAt(fault))

\* add_document / add_text on one chunk under a fault: the store.
CliIngestStore(command, fault) ==
    DocumentStore("x", 1, CliMetadata(command), CliOutcomes(fault),
                  CliFailAt(fault))

CliIdle ==
    /\ cli_args = [command |-> "none", verbose |-> FALSE, force |-> FALSE,
                   valid |-> TRUE]
    /\ cli_fault = "none"
    /\ cli_exit = 0
    /\ cli_pc = "idle"

CliInit ==
    /\ cli_args \in CliArgs
    /\ cli_fault = "none"
    /\ cli_exit = 0
    /\ cli_pc = "call"

\* sys.exit(code).
Exit(fault, code) ==
    /\ cli_fault' = fault
    /\ cli_exit' = code
    /\ cli_pc' = "exited"
    /\ UNCHANGED cli_args

\* The handler of the command line is entered.
Handling(command) == cli_pc = "call" /\ cli_args.command = command

\* main, lines 464-468: a KeyboardInterrupt leaves the handler, whose
\* `except Exception` clauses do not catch it, and main exits with 130.
Interrupted ==
    /\ CliFrame
    /\ cli_pc = "call"
    /\ Exit("interrupt", 130)
    /\ UNCHANGED <<store, collVars>>

\* Lines 145-155, 190-200, 235-241, 278-284: a missing file or directory or
\* malformed JSON ends the process before the knowledge base is called.
InvalidArguments ==
    /\ CliFrame
    /\ cli_pc = "call"
    /\ ~cli_args.valid
    /\ Exit("none", 1)
    /\ UNCHANGED <<store, collVars>>

\* handle_create_collection, lines 82-107.
HandleCreateCollection ==
    /\ CliFrame
    /\ Handling("create-collection")
    /\ \E fault \in CommandFaults("create-collection") \ {"interrupt"} :
         LET name == "kb"
             left == AfterForce(name, cli_args.force, fault = "none")
             error == IF fault = "database" THEN ConnectionFailed
                      ELSE AlreadyExists
             success == IF fault = "none" /\ name \notin left THEN TRUE
                        ELSE CreateFailed(error)
         IN  /\ collections' = IF success THEN left \cup {name} ELSE left
             /\ indexes' =
                   IF success
                   THEN IndexesAfterForce(name, cli_args.force, TRUE)
                           \cup CreatedIndexes(name, Len(IndexFields))
                   ELSE indexes
             /\ CreateCalled(name, cli_args.force,
                             IF success THEN "created" ELSE error.message)
             /\ cc_ret' = success
             /\ Exit(fault, IF success THEN 0 ELSE 1)
    /\ UNCHANGED store

\* handle_list_collections, lines 110-133: VectorStore.list_collections
\* (vector_store.py 60-75) answers a failure with the empty list, for which
\* "No collections found" is printed and the handler returns.
HandleListCollections ==
    /\ CliFrame
    /\ Handling("list-collections")
    /\ \E fault \in CommandFaults("list-collections") \ {"interrupt"} :
          Exit(fault, 0)
    /\ UNCHANGED <<store, collVars>>

\* handle_add and handle_add_text, lines 136-176 and 226-262: the exit code
\* after the knowledge base returned (success, chunks).
IngestExit(result) == IF result[1] THEN 0 ELSE 1

\* handle_add, lines 136-176.
HandleAdd ==
    /\ CliFrame
    /\ Handling("add")
    /\ cli_args.valid
    /\ \E fault \in CommandFaults("add") \ {"interrupt"} :
          /\ store' = CliIngestStore("add", fault)
          /\ Exit(fault, IngestExit(CliIngestResult("add", fault)))
    /\ UNCHANGED collVars

\* handle_add_directory, lines 179-223, on a directory of one file.
HandleAddDirectory ==
    /\ CliFrame
    /\ Handling("add-directory")
    /\ cli_args.valid
    /\ \E fault \in CommandFaults("add-directory") \ {"interrupt"} :
          /\ store' = CliIngestStore("add-directory", fault)
          /\ Exit(fault, IngestExit(CliIngestResult("add-directory", fault)))
    /\ UNCHANGED collVars

\* handle_add_text, lines 226-262.
HandleAddText ==
    /\ CliFrame
    /\ Handling("add-text")
    /\ cli_args.valid
    /\ \E fault \in CommandFaults("add-text") \ {"interrupt"} :
          /\ store' = CliIngestStore("add-text", fault)
          /\ Exit(fault, IngestExit(CliIngestResult("add-text", fault)))
    /\ UNCHANGED collVars

\* handle_query, lines 265-318: "No results found" is printed for the
\* empty list and the handler returns.
HandleQuery ==
    /\ CliFrame
    /\ Handling("query")
    /\ cli_args.valid
    /\ \E fault \in CommandFaults("query") \ {"interrupt"} : Exit(fault, 0)
    /\ UNCHANGED <<store, collVars>>

\* handle_versions, lines 321-350: get_document_versions answers a failure
\* with the empty list, for which "No versions found" is printed.
HandleVersions ==
    /\ CliFrame
    /\ Handling("versions")
    /\ \E fault \in CommandFaults("versions") \ {"interrupt"} : Exit(fault, 0)
    /\ UNCHANGED <<store, collVars>>

CliNext ==
    \/ Interrupted
    \/ InvalidArguments
    \/ HandleCreateCollection
    \/ HandleListCollections
    \/ HandleAdd
    \/ HandleAddDirectory
    \/ HandleAddText
    \/ HandleQuery
    \/ HandleVersions

----------------------------------------------------------------------------
(* Specifications *)

InitChunk == ChunkInit /\ EmbedIdle /\ store = {} /\ UpsertIdle /\ KbIdle /\ CollIdle /\ IdIdle /\ DirIdle /\ CliIdle

SpecChunk == InitChunk /\ [][ChunkNext]_vars

InitEmbed == EmbedInit /\ ChunkIdle /\ store = {} /\ UpsertIdle /\ KbIdle /\ CollIdle /\ IdIdle /\ DirIdle /\ CliIdle

SpecEmbed == InitEmbed /\ [][EmbedNext]_vars

\* get_embeddings_batch is one thread of control whose waits are finite: a
\* call in progress takes its next step.
SpecEmbedFair == SpecEmbed /\ WF_vars(EmbedNext)

InitEmbedOne == OneInit /\ ChunkIdle /\ store = {} /\ UpsertIdle /\ KbIdle /\ CollIdle /\ IdIdle /\ DirIdle /\ CliIdle

SpecEmbedOne == InitEmbedOne /\ [][OneNext]_vars

InitUpsert == UpsertInit /\ ChunkIdle /\ EmbedIdle /\ KbIdle /\ CollIdle /\ IdIdle /\ DirIdle /\ CliIdle

SpecUpsert == InitUpsert /\ [][UpsertNext]_vars

\* The numbers of points add_points is retried on: none, one batch, two
\* batches.
RetryPointCounts == {0, 1, MAX_BATCH_SIZE + 1}

\* One call of one of the three functions that retry a remote call.
InitRetry ==
    \/ InitEmbedOne
    \/ InitEmbed
    \/ InitUpsert /\ Len(points) \in RetryPointCounts

RetryNext ==
    \/ OneNext
    \/ EmbedNext
    \/ UpsertNext

SpecRetry == InitRetry /\ [][RetryNext]_vars

\* Where the three calls are in their loops; every step changes it.
retryPosition ==
    <<ge_pc, ge_attempt, emb_pc, emb_i, attempt, up_pc, up_i, up_attempt>>

\* The calls are sequential Python: the call that was made takes its next
\* step whenever it has one.
SpecRetryFair ==
    /\ SpecRetry
    /\ WF_retryPosition(ge_pc # "idle" /\ OneNext)
    /\ WF_retryPosition(emb_pc # "idle" /\ EmbedNext)
    /\ WF_retryPosition(up_pc # "idle" /\ UpsertNext)

InitKb == KbInit /\ ChunkIdle /\ EmbedIdle /\ UpsertIdle /\ CollIdle /\ IdIdle /\ DirIdle /\ CliIdle

IngestNext ==
    \/ AddLongDocument
    \/ AddLongText
    \/ AddDocumentUnreadable

SpecIngest == InitKb /\ [][IngestNext]_vars

\* The knowledge base configured with CHUNK_OVERLAP=0, the setting in
\* which chunk_text returns on texts of several chunks.
InitKbNoOverlap == InitKb /\ chunk_overlap = 0

Spec == InitKbNoOverlap /\ [][KbNext]_vars

\* A collection of ingested versions, about to be queried.
InitQuery ==
    /\ store \in QueriedStores
    /\ clock = MaxClock
    /\ chunk_overlap = 0
    /\ calls = 0
    /\ kb_op = "none"
    /\ kb_args = [kind |-> "none"]
    /\ kb_ret = <<FALSE, 0>>
    /\ kb_again = FALSE
    /\ limit = 0
    /\ hits = <<>>
    /\ results = <<>>
    /\ scrolled = {}
    /\ versions = <<>>
    /\ ChunkIdle /\ EmbedIdle /\ UpsertIdle /\ CollIdle /\ IdIdle /\ DirIdle /\ CliIdle

QueryNext == QueryStored

SpecQuery == InitQuery /\ [][QueryNext]_vars

VersionsNext ==
    \/ Tick
    \/ AddChunkedDocument
    \/ AddText
    \/ GetDocumentVersions
    \/ GetDocumentVersionsFails

SpecVersions == InitKbNoOverlap /\ [][VersionsNext]_vars

ScrollNext ==
    \/ AddLargeDocument
    \/ GetDocumentVersions
    \/ GetDocumentVersionsFails

SpecScroll == InitKbNoOverlap /\ [][ScrollNext]_vars

InitCollection ==
    /\ CollIdle /\ ChunkIdle /\ EmbedIdle /\ store = {} /\ UpsertIdle /\ KbIdle /\ IdIdle /\ DirIdle /\ CliIdle

SpecCollection == InitCollection /\ [][CollNext]_vars

InitId ==
    /\ IdInit /\ ChunkIdle /\ EmbedIdle /\ store = {} /\ UpsertIdle /\ KbIdle
    /\ CollIdle /\ DirIdle /\ CliIdle

SpecId == InitId /\ [][IdNext]_vars

InitDirectory ==
    /\ DirInit /\ KbInit /\ ChunkIdle /\ EmbedIdle /\ UpsertIdle /\ CollIdle
    /\ IdIdle /\ CliIdle

SpecDirectory == InitDirectory /\ [][DirNext]_vars

\* The database a command line runs against: with or without the
\* collection, with or without a stored document.
InitCli ==
    /\ CliInit
    /\ collections \in {{}, {"kb"}}
    /\ indexes = {}
    /\ cc_call = [kind |-> "none"]
    /\ cc_ret = "none"
    /\ store \in {{}, Range(DocumentPoints(1))}
    /\ ChunkIdle /\ EmbedIdle /\ UpsertIdle /\ KbIdle /\ IdIdle /\ DirIdle

SpecCli == InitCli /\ [][CliNext]_vars

----------------------------------------------------------------------------
(* Properties of chunk_text, checked under SpecChunk *)

\* The call is inside the domain of the chunking contract.
ProperOverlap == overlap < max_size

\* chunk_text has returned its list.
ChunkReturned == chunk_pc = "done"

\* chunk_text has ended, by returning or by raising.
ChunkEnded == chunk_pc \in {"done", "raised"}

\* One iteration of the loop has just appended a chunk.
ChunkAppended == chunk_pc = "loop" /\ chunks' # chunks

RECURSIVE DropOverlaps(_, _)
\* The later chunks, each without its first ov characters, concatenated.
DropOverlaps(cs, ov) ==
    IF cs = <<>> THEN <<>>
    ELSE SubSeq(Head(cs), ov + 1, Len(Head(cs))) \o DropOverlaps(Tail(cs), ov)

\* The first chunk followed by every later chunk without its overlap.
Reconstruct(cs, ov) ==
    IF cs = <<>> THEN <<>> ELSE Head(cs) \o DropOverlaps(Tail(cs), ov)

\* C1: with 0 <= overlap < max_size every window starts strictly after the
\* previous window's start, and the loop ends once a window has reached the
\* end of the text.
C1_ForwardProgress ==
    [][(ProperOverlap /\ ChunkAppended) =>
          /\ start' > start
          /\ (WindowEnd(text, max_size, start) = Len(text) => chunk_pc' = "done")]_vars

\* C8: for a text longer than max_size (0 <= overlap < max_size) the call
\* returns at least 2 chunks, each of length at most max_size, and the
\* first chunk followed by the later chunks without their overlaps is the
\* text.
C8_Reconstructs ==
    (ChunkEnded /\ ProperOverlap /\ Len(text) > max_size) =>
        /\ ChunkReturned
        /\ Len(chunks) >= 2
        /\ \A k \in 1 .. Len(chunks) : Len(chunks[k]) <= max_size
        /\ Reconstruct(chunks, overlap) = text

\* C9 as stated: every text with len(text) <= max_size comes back as exactly
\* one chunk equal to the text.
C9_SingleChunkAnyText ==
    (chunk_pc # "call" /\ Len(text) <= max_size) =>
        (ChunkReturned /\ chunks = <<text>>)

\* C9 (amended): every non-empty text with len(text) <= max_size comes back
\* as exactly one chunk equal to the text, without entering the loop.
C9_SingleChunk ==
    (chunk_pc # "call" /\ text # <<>> /\ Len(text) <= max_size) =>
        (ChunkReturned /\ chunks = <<text>>)

\* A text of exactly max_size characters has been returned as one chunk.
C9_Witness ==
    /\ ChunkReturned
    /\ Len(text) = max_size
    /\ max_size >= 2
    /\ chunks = <<text>>

\* C10: called with overlap >= max_size, chunk_text steps back by at most
\* max_size - 1 characters (the overlap is clamped), so the next window
\* starts at end - min(overlap, max_size - 1).
C10_OverlapClamped ==
    [][(ChunkAppended /\ overlap >= max_size) =>
          start' = WindowEnd(text, max_size, start) - Min(overlap, max_size - 1)]_vars

\* The text has neither a newline nor a space.
PlainText == \A k \in 1 .. Len(text) : text[k] = "a"

\* The distance between the starts of two consecutive windows of a text
\* without break characters.
WindowStride == max_size - overlap

\* The number of windows of such a text that is longer than max_size: the
\* first window that reaches the end of the text is the last.
WindowCount == ((Len(text) - max_size + WindowStride - 1) \div WindowStride) + 1

\* C11: a text without newline or space that is longer than max_size
\* (overlap < max_size) comes back as the windows that start every
\* max_size - overlap characters, each of at most max_size characters and
\* sharing `overlap` characters with the next, the last being the remainder.
C11_PlainTextChunks ==
    (ChunkEnded /\ ProperOverlap /\ PlainText /\ Len(text) > max_size) =>
        /\ ChunkReturned
        /\ Len(chunks) = WindowCount
        /\ \A k \in 1 .. Len(chunks) :
              /\ chunks[k] = Slice(text, (k - 1) * WindowStride,
                                   (k - 1) * WindowStride + max_size)
              /\ Len(chunks[k]) <= max_size
        /\ \A k \in 1 .. Len(chunks) - 1 :
              Slice(chunks[k], Len(chunks[k]) - overlap, Len(chunks[k]))
                  = Slice(chunks[k + 1], 0, overlap)

----------------------------------------------------------------------------
(* Properties of get_embeddings_batch, checked under SpecEmbed *)

\* C2: whatever the remote calls answer, the returned list has exactly
\* len(texts) vectors and the vector at position k is the one of texts[k]:
\* the provider's embedding of the cleaned text, or the zero placeholder.
C2_OneVectorPerText ==
    emb_pc = "done" =>
        /\ Len(embeddings) = Len(texts)
        /\ \A k \in 1 .. Len(embeddings) :
              embeddings[k] \in {ProviderEmbedding(CleanText(texts[k])), ZeroVector}

\* The provider error that leaves a get_embedding call on which every
\* attempt failed with a provider error.
OneExhausted ==
    /\ ge_pc = "raised"
    /\ ge_result.error # "Exception"

\* C15: when every attempt of get_embedding on a non-blank text fails with
\* a provider error, the call makes max_retries attempts and then fails
\* with EmbeddingError.
C15_FailsWithEmbeddingError ==
    OneExhausted =>
        /\ Len(requests) = max_retries
        /\ ge_result = Raised("EmbeddingError")

RECURSIVE SentInOrder(_, _)
\* The requests are those of the sub-batches from start i on, in input
\* order: between one and max_retries requests for each sub-batch, each with
\* the cleaned texts of that sub-batch.
SentInOrder(reqs, i) ==
    IF i >= Len(texts) THEN reqs = <<>>
    ELSE \E k \in 1 .. Min(max_retries, Len(reqs)) :
            /\ \A j \in 1 .. k :
                  reqs[j] = CleanedTexts(SubBatch(texts, i, chunk_size))
            /\ SentInOrder(SubSeq(reqs, k + 1, Len(reqs)), i + chunk_size)

\* The call has returned after sending every sub-batch, in input order.
ReturnedAllSent == emb_pc = "done" /\ SentInOrder(requests, 0)

\* C16: once a sub-batch of get_embeddings_batch has used up its attempts,
\* the call still sends every later sub-batch, in input order, and returns.
C16_ExhaustedNeverAborts == (exhausted # {}) ~> ReturnedAllSent

\* The first of two sub-batches used up its attempts, the second was sent
\* and answered, and the call returned.
C16_Witness ==
    /\ emb_pc = "done"
    /\ exhausted = {0}
    /\ Len(texts) > chunk_size
    /\ Len(requests) = max_retries + 1
    /\ requests[Len(requests)] = CleanedTexts(SubBatch(texts, chunk_size, chunk_size))
    /\ embeddings[Len(embeddings)] # ZeroVector

\* get_embedding on a blank text makes no remote call and returns the zero
\* vector.
BlankOneNotSent ==
    (ge_pc # "idle" /\ IsBlank(ge_text)) =>
        /\ requests = <<>>
        /\ ge_pc = "returned" => ge_result = Returned(ZeroVector)

\* No input sent by get_embeddings_batch holds a blank text, and the vector
\* returned for a blank text is the zero vector.
BlankBatchNotSent ==
    emb_pc # "idle" =>
        /\ \A r \in DOMAIN requests :
              \A k \in DOMAIN requests[r] : ~IsBlank(requests[r][k])
        /\ (emb_pc = "done" /\ Len(embeddings) = Len(texts)) =>
              \A k \in DOMAIN texts :
                 IsBlank(texts[k]) => embeddings[k] = ZeroVector

\* C17: an empty or whitespace-only text is never sent to the remote API,
\* by get_embedding or inside an input of get_embeddings_batch, and its
\* vector is the zero vector.
C17_BlankNeverSent == BlankOneNotSent /\ BlankBatchNotSent

----------------------------------------------------------------------------
(* Properties of add_points, checked under SpecUpsert *)

\* The batch numbers of the call (none for an empty list of points).
UpsertBatches == IF Len(points) = 0 THEN {} ELSE 1 .. TotalBatches(points)

\* The points of batch b: at most 100 consecutive points.
PointsOfBatch(b) ==
    {points[k] : k \in {j \in 1 .. Len(points) :
                          ((j - 1) \div MAX_BATCH_SIZE) + 1 = b}}

\* All points of batch b are in the store.
BatchStored(b) == PointsOfBatch(b) \subseteq store

\* C6: add_points returns True exactly when every batch was upserted within
\* MAX_RETRIES attempts; when it returns False some batch has failed
\* MAX_RETRIES times, the batches before it are still in the store and no
\* later batch was sent.
C6_AddPointsResult ==
    up_pc = "done" =>
        /\ up_ret \in BOOLEAN
        /\ up_ret = TRUE <=>
              \A b \in UpsertBatches :
                  BatchStored(b) /\ upsert_calls[b] \in 1 .. MAX_RETRIES
        /\ up_ret = FALSE =>
              \E b \in UpsertBatches :
                  /\ upsert_calls[b] = MAX_RETRIES
                  /\ ~BatchStored(b)
                  /\ \A c \in UpsertBatches : c < b => BatchStored(c)
                  /\ \A c \in UpsertBatches : c > b => upsert_calls[c] = 0

\* add_points has returned False after committing two batches of 100 points
\* and failing the third three times.
C6_Witness ==
    /\ up_pc = "done"
    /\ up_ret = FALSE
    /\ Len(points) > 2 * MAX_BATCH_SIZE
    /\ Cardinality(store) = 2 * MAX_BATCH_SIZE
    /\ upsert_calls[3] = MAX_RETRIES

----------------------------------------------------------------------------
(* Properties of a single ingestion call, checked under SpecIngest *)

\* The last call was an ingestion whose content was read and chunked into
\* at least one chunk.
IngestedChunks ==
    /\ kb_op \in {"add_document", "add_text"}
    /\ kb_args.kind = "read"
    /\ kb_args.n > 0
    /\ ChunkingReturns(kb_args.n, chunk_overlap)

\* The number of the sub-batch that holds the chunk of index i.
SubBatchOf(i) == (i \div MAX_EMBEDDING_BATCH_SIZE) + 1

\* The chunks of sub-batch b of the last ingestion call.
SubBatchChunks(b) ==
    Slice(DocChunks(kb_args.content, kb_args.n),
          (b - 1) * MAX_EMBEDDING_BATCH_SIZE, b * MAX_EMBEDDING_BATCH_SIZE)

\* The embedding count of sub-batch b equals its chunk count.
CountsMatch(b) ==
    Len(get_embeddings(SubBatchChunks(b), kb_args.outcomes[b]))
        = Len(SubBatchChunks(b))

\* The chunk indexes of the sub-batches whose counts match.
KeptIndexes == {i \in 0 .. kb_args.n - 1 : CountsMatch(SubBatchOf(i))}

\* C7: a sub-batch whose embedding count differs from its chunk count gives
\* no point, the chunks of every other sub-batch become points, and the call
\* returns (True, n) with n the number of those points when n > 0 and the
\* upsert succeeds; it returns (False, 0), and stores nothing, when no point
\* was produced.
C7_MismatchDropped ==
    IngestedChunks =>
        /\ KeptIndexes = {} => (kb_ret = <<FALSE, 0>> /\ store = {})
        /\ (KeptIndexes # {} /\ kb_args.fail_at = 0) =>
              /\ kb_ret = <<TRUE, Cardinality(KeptIndexes)>>
              /\ {p.payload.chunk_index : p \in store} = KeptIndexes
              /\ Cardinality(store) = Cardinality(KeptIndexes)
              /\ \A p \in store :
                    /\ p.payload.text =
                          DocChunks(kb_args.content, kb_args.n)[p.payload.chunk_index + 1]
                    /\ p.payload.total_chunks = kb_args.n

\* An ingestion of three sub-batches has dropped the first, whose embeddings
\* never came, and stored the points of the two others.
C7_Witness ==
    /\ IngestedChunks
    /\ kb_args.n > 2 * MAX_EMBEDDING_BATCH_SIZE
    /\ kb_args.outcomes[1] = "transient_exhausted"
    /\ kb_args.outcomes[2] = "ok"
    /\ kb_ret = <<TRUE, kb_args.n - MAX_EMBEDDING_BATCH_SIZE>>
    /\ \E p \in store : p.payload.chunk_index = MAX_EMBEDDING_BATCH_SIZE
    /\ ~\E p \in store : p.payload.chunk_index < MAX_EMBEDDING_BATCH_SIZE

\* Every embedding sub-batch and every upsert batch of the last ingestion
\* call succeeded.
AllSucceeded ==
    /\ IngestedChunks
    /\ \A b \in DOMAIN kb_args.outcomes : kb_args.outcomes[b] = "ok"
    /\ kb_args.fail_at = 0

\* C14: when every sub-batch and every upsert succeeds, the call stores
\* exactly one point per chunk: each chunk_index 0..n-1 once, with the text
\* of that chunk, total_chunks = n, and the one timestamp and version_date
\* of the call.
C14_OnePointPerChunk ==
    AllSucceeded =>
        /\ kb_ret = <<TRUE, kb_args.n>>
        /\ Cardinality(store) = kb_args.n
        /\ \A i \in 0 .. kb_args.n - 1 :
              Cardinality({p \in store : p.payload.chunk_index = i}) = 1
        /\ \A p \in store :
              /\ p.payload.chunk_index \in 0 .. kb_args.n - 1
              /\ p.payload.text =
                    DocChunks(kb_args.content, kb_args.n)[p.payload.chunk_index + 1]
              /\ p.payload.total_chunks = kb_args.n
              /\ p.payload.timestamp = kb_args.timestamp
              /\ p.payload.version_date = format_timestamp(kb_args.timestamp)

\* An ingestion of three sub-batches has succeeded throughout and stored a
\* point for each of its chunks.
C14_Witness ==
    /\ AllSucceeded
    /\ kb_args.n > 2 * MAX_EMBEDDING_BATCH_SIZE
    /\ kb_ret = <<TRUE, kb_args.n>>
    /\ Cardinality(store) = kb_args.n

\* The last operation was an ingestion call.
Ingested == kb_op \in {"add_document", "add_text"}

\* The points the last ingestion call built.
BuiltPoints ==
    IF kb_args.kind = "read"
    THEN IngestPoints(kb_args.content, kb_args.n, kb_args.metadata,
                      kb_args.outcomes)
    ELSE <<>>

\* The last ingestion call met a missing or oversized file, a chunking that
\* raised, a text of no chunks, no point at all, or an upsert batch that
\* used up its retries.
WholeOperationFailed ==
    \/ kb_args.kind = "unreadable"
    \/ /\ kb_args.kind = "read"
       /\ \/ ~ChunkingReturns(kb_args.n, chunk_overlap)
          \/ kb_args.n = 0
          \/ BuiltPoints = <<>>
          \/ kb_args.fail_at # 0

\* The embedding calls of some sub-batch of the last ingestion call failed.
EmbeddingFailed ==
    /\ kb_args.kind = "read"
    /\ \E b \in DOMAIN kb_args.outcomes : kb_args.outcomes[b] # "ok"

\* C22, as stated: add_document and add_text return a pair, and (False, 0)
\* after a missing or oversized file, an error while chunking or embedding,
\* zero points, or an upsert that used up its retries.
C22_AnyFailureReturnsFalseZero ==
    Ingested =>
        /\ kb_ret \in BOOLEAN \X (0 .. MaxLongChunks)
        /\ (WholeOperationFailed \/ EmbeddingFailed) => kb_ret = <<FALSE, 0>>

\* C22, amended: add_document and add_text return a pair; it is (False, 0)
\* after a missing or oversized file, a chunking that raised, zero points,
\* or an upsert that used up its retries, and (True, number of points
\* built) otherwise, failed embedding sub-batches included.
C22_WholeFailureReturnsFalseZero ==
    Ingested =>
        /\ kb_ret \in BOOLEAN \X (0 .. MaxLongChunks)
        /\ kb_ret = IF WholeOperationFailed THEN <<FALSE, 0>>
                    ELSE <<TRUE, Len(BuiltPoints)>>

\* An ingestion built points and its upsert used up the retries.
C22_Witness ==
    /\ Ingested
    /\ kb_args.kind = "read"
    /\ BuiltPoints # <<>>
    /\ kb_args.fail_at # 0
    /\ kb_ret = <<FALSE, 0>>

----------------------------------------------------------------------------
(* Properties of the knowledge base, checked under Spec *)

\* C3: no step replaces or changes a stored point: every point of the store
\* is in the store after the step with the same id, text and timestamp.
C3_NeverReplaces ==
    [][\A p \in store :
          \E r \in store' :
              /\ r.id = p.id
              /\ r.payload.text = p.payload.text
              /\ r.payload.timestamp = p.payload.timestamp]_vars

\* The path a result is grouped under.
ResultPath(r) ==
    IF "path" \in DOMAIN r.metadata THEN r.metadata.path
    ELSE <<"u", "n", "k", "n", "o", "w", "n">>

\* C4: every result of a query belongs to the most recent stored version of
\* its document: no stored point has the metadata.path of the result and a
\* strictly greater timestamp.
C4_MostRecentStored ==
    kb_op = "query" =>
        \A k \in 1 .. Len(results) :
            "path" \in DOMAIN results[k].metadata =>
                ~\E p \in store :
                    /\ "path" \in DOMAIN p.payload.metadata
                    /\ p.payload.metadata.path = results[k].metadata.path
                    /\ p.payload.timestamp > results[k].timestamp

\* The paths of the hits of the last query.
HitPaths == {HitPath(hits[k]) : k \in 1 .. Len(hits)}

\* The positions of the hits of a path that have the greatest timestamp
\* among the hits of that path.
NewestOf(path) ==
    {j \in 1 .. Len(hits) :
        /\ HitPath(hits[j]) = path
        /\ \A i \in 1 .. Len(hits) :
              HitPath(hits[i]) = path =>
                  hits[i].payload.timestamp <= hits[j].payload.timestamp}

\* Result r presents hit h.
Presents(r, h) ==
    /\ r.text = h.payload.text
    /\ r.metadata = h.payload.metadata
    /\ r.score = h.score
    /\ r.timestamp = h.payload.timestamp
    /\ r.version_date = h.payload.version_date
    /\ r.chunk_index = h.payload.chunk_index
    /\ r.total_chunks = h.payload.total_chunks

\* C5: the results of a latest-only query are computed from the hits of the
\* search: each result presents a hit that has the greatest timestamp among
\* the hits of its path, no two results share a path, the results are in
\* descending order of score, there are min(limit, number of paths) of
\* them, and a path without a result has no newest hit that scores above a
\* result.
C5_LatestOnlyFromHits ==
    kb_op = "query" =>
        /\ Len(results) = Min(limit, Cardinality(HitPaths))
        /\ \A k \in 1 .. Len(results) :
              \E j \in NewestOf(ResultPath(results[k])) :
                  Presents(results[k], hits[j])
        /\ \A k, l \in 1 .. Len(results) :
              k < l => /\ ResultPath(results[k]) # ResultPath(results[l])
                       /\ results[k].score >= results[l].score
        /\ \A path \in HitPaths \ {ResultPath(results[k]) : k \in 1 .. Len(results)} :
              \A k \in 1 .. Len(results) :
                  \A j \in NewestOf(path) : hits[j].score <= results[k].score

\* A query with limit 1 whose hits hold an older version of a path with
\* score 0.9 and a newer version of it with score 0.7 has returned the newer
\* one alone.
C5_Witness ==
    /\ kb_op = "query"
    /\ limit = 1
    /\ Len(results) = 1
    /\ \E i, j \in 1 .. Len(hits) :
          /\ HitPath(hits[i]) = HitPath(hits[j])
          /\ hits[i].score = 9
          /\ hits[j].score = 7
          /\ hits[i].payload.timestamp < hits[j].payload.timestamp
          /\ Presents(results[1], hits[j])

----------------------------------------------------------------------------
(* Properties of repeated ingestion, checked under SpecVersions *)

\* The ids the last ingestion call derives for its chunks.
DerivedIds ==
    {create_versioned_id(BaseId(kb_args.metadata), kb_args.timestamp, i) :
        i \in 0 .. kb_args.n - 1}

\* The step is an ingestion call that repeats the call before it, both
\* successful: the same text under the same path with the same timestamp.
RepeatedIngestion ==
    /\ calls' = calls + 1
    /\ kb_again'
    /\ kb_args'.kind = "read"
    /\ "path" \in DOMAIN kb_args'.metadata
    /\ kb_ret'[1]

\* C12: ingesting the same text under the same path a second time with the
\* same timestamp leaves the store as it was: the call derives the ids of
\* the first call, one per chunk, and the store holds exactly one point for
\* each of them.
C12_IdempotentReingestion ==
    [][RepeatedIngestion =>
          /\ store' = store
          /\ DerivedIds' = DerivedIds
          /\ Cardinality(DerivedIds') = kb_args'.n
          /\ \A id \in DerivedIds' :
                Cardinality({p \in store' : p.id = id}) = 1]_vars

\* A document of two chunks has been ingested twice in the same second,
\* successfully both times, and the store holds its two points.
C12_Witness ==
    /\ kb_again
    /\ kb_op = "add_document"
    /\ kb_args.kind = "read"
    /\ kb_args.n = 2
    /\ kb_ret = <<TRUE, 2>>
    /\ calls = 2
    /\ Cardinality(store) = 2

\* The stored points of documents: those that have a metadata.path.
DocumentPointsStored == {p \in store : "path" \in DOMAIN p.payload.metadata}

\* Two points of the same version: same metadata.path and timestamp.
SameVersion(p, q) ==
    /\ p.payload.metadata.path = q.payload.metadata.path
    /\ p.payload.timestamp = q.payload.timestamp

\* C13: the stored points that share a (metadata.path, timestamp) agree on
\* total_chunks and have pairwise distinct chunk_index values, all below
\* total_chunks.
C13_OneVersionPerTimestamp ==
    \A p, q \in DocumentPointsStored :
        SameVersion(p, q) =>
            /\ p.payload.total_chunks = q.payload.total_chunks
            /\ (p # q => p.payload.chunk_index # q.payload.chunk_index)
            /\ p.payload.chunk_index < p.payload.total_chunks

----------------------------------------------------------------------------
(* Properties of get_document_versions, checked under SpecVersions and *)
(* SpecScroll *)

\* The last operation was a get_document_versions call that got its page.
VersionsListed == kb_op = "get_document_versions" /\ kb_args.scroll = "ok"

\* The stored points that stand for the versions of a path.
StoredVersionPoints(path) == VersionPoints(PathMatches(store, path))

\* C18: get_document_versions returns (timestamp, version_date) pairs with
\* strictly descending timestamps, hence without duplicates, each the
\* timestamp and version_date of a stored point of the path with
\* chunk_index 0.
C18_VersionsDescending ==
    kb_op = "get_document_versions" =>
        /\ \A i, j \in DOMAIN versions :
              i < j => versions[i][1] > versions[j][1]
        /\ \A i \in DOMAIN versions :
              \E p \in StoredVersionPoints(kb_args.path) :
                 /\ p.payload.timestamp = versions[i][1]
                 /\ p.payload.version_date = versions[i][2]

\* A path with two stored versions was listed.
C18_Witness ==
    /\ VersionsListed
    /\ Len(versions) = 2
    /\ Cardinality(StoredVersionPoints(kb_args.path)) = 2

\* C19: get_document_versions returns every timestamp for which the
\* collection stores a point of the path with chunk_index 0, however many
\* points the path has.
C19_VersionsComplete ==
    VersionsListed =>
        \A p \in StoredVersionPoints(kb_args.path) :
           \E i \in DOMAIN versions : versions[i][1] = p.payload.timestamp

----------------------------------------------------------------------------
(* Properties of create_collection, checked under SpecCollection *)

\* C20: create_collection(name, force=False) returns True when the database
\* rejects the creation because the collection already exists.
C20_AlreadyExistsIsSuccess ==
    (/\ cc_call.kind = "create_collection"
     /\ ~cc_call.force
     /\ cc_call.answer = "already exists") => cc_ret = TRUE

----------------------------------------------------------------------------
(* Properties of create_versioned_id, checked under SpecId *)

\* C21: the identifier is a function of (path, timestamp, chunk_index), and
\* a triple that differs from the arguments in its path, its timestamp or
\* its chunk_index gets another identifier.
C21_DistinctIds ==
    vid_pc = "done" =>
        /\ vid_id = create_versioned_id(vid_args.path, vid_args.timestamp,
                                        vid_args.chunk_index)
        /\ \A other \in IdTriples :
              other # vid_args =>
                 create_versioned_id(other.path, other.timestamp,
                                     other.chunk_index) # vid_id

\* An identifier was made for a path that holds separators and digits, so
\* that another triple spells the same characters in the same order.
C21_Witness ==
    /\ vid_pc = "done"
    /\ \E other \in IdTriples :
          /\ other # vid_args
          /\ VersionedNameUnseparated(other.path, other.timestamp,
                                      other.chunk_index)
                = VersionedNameUnseparated(vid_args.path, vid_args.timestamp,
                                           vid_args.chunk_index)
          /\ other.path # vid_args.path
          /\ other.timestamp # vid_args.timestamp

----------------------------------------------------------------------------
(* Properties of ingestions without chunks, checked under Spec *)

\* The step is an ingestion call whose text yields no chunks.
EmptyIngestion ==
    /\ calls' = calls + 1
    /\ kb_args'.kind = "read"
    /\ kb_args'.n = 0

\* C23: an ingestion whose text yields no chunks returns (False, 0), makes
\* no embedding call and no upsert, and leaves the store as it was.
C23_NoChunksNoEffect ==
    [][EmptyIngestion =>
          /\ kb_ret' = <<FALSE, 0>>
          /\ DOMAIN kb_args'.outcomes = {}
          /\ kb_args'.fail_at = 0
          /\ store' = store]_vars

\* A text of no chunks was ingested into a store that holds points.
C23_Witness ==
    /\ Ingested
    /\ kb_args.kind = "read"
    /\ kb_args.n = 0
    /\ kb_ret = <<FALSE, 0>>
    /\ store # {}

----------------------------------------------------------------------------
(* Properties of failed and empty queries, checked under Spec *)

\* C24: a query on a collection without points returns the empty list, and
\* a query whose search fails returns the empty list too.
C24_EmptyOrFailedQuery ==
    (kb_op = "query" /\ (store = {} \/ kb_args.search = "error")) =>
        results = <<>>

\* The search of a query on a collection that holds points failed, and the
\* query returned the empty list.
C24_Witness ==
    /\ kb_op = "query"
    /\ kb_args.search = "error"
    /\ store # {}
    /\ results = <<>>

----------------------------------------------------------------------------
(* Properties of add_directory, checked under SpecDirectory *)

\* The entries of the log with a status.
LoggedAs(status) == {k \in DOMAIN dir_log : dir_log[k].status = status}

RECURSIVE SumChunks(_)
\* The chunk counts of the files ingested successfully, added up.
SumChunks(log) ==
    IF log = <<>> THEN 0
    ELSE (IF log[1].status = "successful" THEN log[1].chunks ELSE 0)
         + SumChunks(Tail(log))

\* The points of a file in the store.
FilePoints(file) ==
    {p \in store : p.payload.metadata.path = file}

\* add_directory has returned from a directory that exists.
Walked == dir_pc = "done" /\ dir_exists

\* C25: add_directory returns (s, c) with s True exactly when a walked file
\* was ingested successfully and c the sum of the chunk counts of those
\* files; every walked file is dealt with, in order, and counted once as
\* successful, failed or skipped, whatever happened to the files before it.
C25_DirectoryCounts ==
    Walked =>
        /\ Len(dir_log) = Len(dir_files)
        /\ \A k \in DOMAIN dir_log : dir_log[k].file = dir_files[k]
        /\ successful_files = Cardinality(LoggedAs("successful"))
        /\ failed_files = Cardinality(LoggedAs("failed"))
        /\ skipped_files = Cardinality(LoggedAs("skipped"))
        /\ successful_files + failed_files + skipped_files = Len(dir_files)
        /\ dir_ret[1] = (LoggedAs("successful") # {})
        /\ dir_ret[2] = SumChunks(dir_log)
        /\ \A k \in LoggedAs("successful") :
              /\ dir_log[k].chunks > 0
              /\ Cardinality(FilePoints(dir_log[k].file)) = dir_log[k].chunks

\* A walk whose first file failed went on to ingest its second file.
C25_Witness ==
    /\ Walked
    /\ Len(dir_log) = 2
    /\ dir_log[1].status = "failed"
    /\ dir_log[2].status = "successful"
    /\ dir_ret = <<TRUE, dir_log[2].chunks>>

\* C26: add_directory called without an extension list skips every file
\* whose extension is not in the default allow-list and never passes it to
\* add_document.
C26_DefaultAllowList ==
    ~dir_extensions.given =>
        \A k \in DOMAIN dir_log :
           (~\E ext \in DEFAULT_FILE_EXTENSIONS : EndsWith(dir_log[k].file, ext))
              => dir_log[k].status = "skipped"

----------------------------------------------------------------------------
(* Properties of the command line, checked under SpecCli *)

\* C27: a command during which the vector database or the embedding
\* provider failed ends the process with a non-zero exit code, and an
\* interrupted command ends it with exit code 130.
C27_FailureExitsNonZero ==
    cli_pc = "exited" =>
        /\ cli_fault \in HandledFaults => cli_exit # 0
        /\ cli_fault = "interrupt" => cli_exit = 130

----------------------------------------------------------------------------
(* The break point of a window of chunk_text, checked under SpecChunk *)

\* The positions of character c in the window [s, s + m) of t.
PositionsInWindow(t, c, s, m) == {k \in s .. (s + m - 1) : t[k + 1] = c}

\* The last of a non-empty set of positions.
LastOf(S) == CHOOSE k \in S : \A j \in S : j <= k

\* The cut the break-point rule gives for the window [s, s + m) of t: just
\* after the last newline when it lies beyond s + m/2, otherwise just after
\* the last space at or beyond s + m/2, otherwise s + m.  The halves are
\* compared exactly (2k against 2s + m).
StatedCut(t, m, s) ==
    LET newlines == PositionsInWindow(t, "\n", s, m)
        spaces == {k \in PositionsInWindow(t, " ", s, m) : 2 * k >= 2 * s + m}
    IN  IF newlines # {} /\ 2 * LastOf(newlines) > 2 * s + m
        THEN LastOf(newlines) + 1
        ELSE IF spaces # {} THEN LastOf(spaces) + 1
        ELSE s + m

\* An iteration of the loop on a window that ends before the end of the
\* text.
CutsInnerWindow ==
    /\ chunk_pc = "loop"
    /\ Len(chunks') = Len(chunks) + 1
    /\ start >= 0
    /\ start + max_size < Len(text)

\* C28: a window [start, start + max_size) that ends before the end of the
\* text is cut just after its last newline when the newline's position is
\* > start + max_size/2, otherwise just after its last space at or after
\* start + max_size/2, otherwise at start + max_size, whether max_size is
\* odd or even.
C28_BreakPoint ==
    [][CutsInnerWindow =>
          chunks'[Len(chunks')] =
              Slice(text, start, StatedCut(text, max_size, start))]_vars

----------------------------------------------------------------------------
(* The ceilings of the retry loops, checked under SpecRetryFair *)

\* get_embedding has made at most max_retries remote calls.
OneWithinCeiling == ge_pc # "idle" => Len(requests) <= max_retries

\* get_embeddings_batch has made at most max_retries remote calls for each
\* sub-batch it has started.
BatchWithinCeiling ==
    emb_pc # "idle" =>
        Len(requests) <= max_retries * (emb_i \div chunk_size)
                            + (IF emb_pc = "loop" THEN attempt ELSE 0)

\* A remote call of get_embeddings_batch is made below the ceiling and
\* either uses up one attempt of the sub-batch or ends the sub-batch.
BatchCallCounted ==
    (emb_pc = "loop" /\ requests' # requests) =>
        /\ attempt < max_retries
        /\ Len(requests') = Len(requests) + 1
        /\ \/ attempt' = attempt + 1 /\ emb_i' = emb_i
           \/ attempt' = 0 /\ emb_i' = emb_i + chunk_size

\* add_points has made at most MAX_RETRIES upsert calls for each batch.
UpsertWithinCeiling ==
    \A b \in DOMAIN upsert_calls : upsert_calls[b] <= MAX_RETRIES

\* The call has returned or raised.
RetryOver ==
    /\ ge_pc \in {"idle", "returned", "raised"}
    /\ emb_pc \in {"idle", "done"}
    /\ up_pc \in {"idle", "done"}

\* No call is beyond the ceiling of its retry loop.
WithinCeilings ==
    [](OneWithinCeiling /\ BatchWithinCeiling /\ UpsertWithinCeiling)

\* Every remote call of get_embeddings_batch is counted by its loop.
BatchCallsCounted == [][BatchCallCounted]_retryPosition

\* The call ends.
RetryTerminates == <>RetryOver

\* C29: get_embedding and each sub-batch of get_embeddings_batch make at
\* most max_retries remote calls, add_points makes at most MAX_RETRIES
\* upsert calls per batch, and each of the three calls ends, whatever the
\* remote services answer.
C29_RetryCeilings == WithinCeilings /\ BatchCallsCounted /\ RetryTerminates

\* Every ceiling is reached: get_embedding gave up after max_retries calls.
C29_Witness ==
    /\ ge_pc = "raised"
    /\ ge_result.error = "EmbeddingError"
    /\ Len(requests) = max_retries

----------------------------------------------------------------------------
(* The order of the batches of add_points, checked under SpecUpsert *)

\* The batches that have been sent at least once.
SentBatches == {b \in DOMAIN upsert_calls : upsert_calls[b] > 0}

\* The batches whose points are in the store.
CommittedBatches == {b \in DOMAIN upsert_calls : BatchStored(b)}

\* Batch b has failed MAX_RETRIES times.
BatchFailed(b) == upsert_calls[b] = MAX_RETRIES /\ ~BatchStored(b)

\* The committed batches are a prefix of the batch sequence, a batch is sent
\* only after the batch before it was committed, and no batch after a failed
\* one has been sent.
BatchesInOrder ==
    /\ \A b \in CommittedBatches : \A c \in 1 .. (b - 1) : c \in CommittedBatches
    /\ \A b \in SentBatches : \A c \in 1 .. (b - 1) : c \in CommittedBatches
    /\ \A b \in DOMAIN upsert_calls :
          BatchFailed(b) => \A c \in SentBatches : c <= b

\* An upsert call is made for the current batch, no earlier batch is sent
\* again and a committed batch stays committed.
SendsCurrentBatch ==
    (up_pc = "loop" /\ upsert_calls' # upsert_calls) =>
        /\ \A b \in DOMAIN upsert_calls :
              upsert_calls'[b] # upsert_calls[b] =>
                  /\ b = BatchNum(points, up_i)
                  /\ \A c \in SentBatches : c <= b
                  /\ \A c \in DOMAIN upsert_calls : ~BatchFailed(c)
        /\ \A b \in CommittedBatches : PointsOfBatch(b) \subseteq store'

AlwaysInOrder == []BatchesInOrder

AlwaysSendsCurrentBatch == [][SendsCurrentBatch]_upsert_calls

\* C30: add_points sends the batches in input order and stops at the first
\* batch that fails MAX_RETRIES times: the committed batches are always a
\* prefix of the batch sequence, batch k+1 is first sent only after batch k
\* was committed, and no batch after a failed one is ever sent.
C30_BatchesInOrder == AlwaysInOrder /\ AlwaysSendsCurrentBatch

\* The second batch is being retried after the first was committed on its
\* second attempt.
C30_Witness ==
    /\ up_pc = "loop"
    /\ Len(upsert_calls) >= 2
    /\ upsert_calls[1] = 2
    /\ upsert_calls[2] = 1
    /\ CommittedBatches = {1}

----------------------------------------------------------------------------
(* Ingestion followed by get_document_versions, checked under SpecScroll *)

\* The last call was an add_document call that returned (True, n).
DocumentIngested ==
    /\ kb_op = "add_document"
    /\ kb_args.kind = "read"
    /\ kb_ret[1]

\* The step is a get_document_versions call, for the path of the document
\* just ingested, that got its page.
ListsIngestedPath ==
    /\ DocumentIngested
    /\ kb_op' = "get_document_versions"
    /\ kb_args'.scroll = "ok"
    /\ kb_args'.path = kb_args.metadata.path

\* C31: after an ingestion call for a document path returned (True, n),
\* get_document_versions of that path lists the timestamp of the call.
C31_IngestedVersionListed ==
    [][ListsIngestedPath =>
          \E i \in DOMAIN versions' : versions'[i][1] = kb_args.timestamp]_vars

----------------------------------------------------------------------------
(* The vectors an ingestion stores, checked under SpecIngest *)

\* The outcome of the embedding calls for the sub-batch of the chunk of
\* index i of the last ingestion call.
OutcomeOf(i) == kb_args.outcomes[SubBatchOf(i)]

\* The outcomes after which get_embeddings answers with placeholders.
DegradedOutcomes == {"provider_exhausted", "unexpected"}

\* The last call was an ingestion whose chunks reached the embedding calls.
EmbeddedChunks == Ingested /\ IngestedChunks

\* C32, as stated: every stored point carries the provider's embedding of
\* its chunk's text, never the all-zero placeholder, and the returned count
\* is the number of chunks whose embedding calls succeeded.
C32_OnlyProviderVectors ==
    EmbeddedChunks =>
        /\ \A p \in store :
              /\ p.vector = ProviderEmbedding(CleanText(p.payload.text))
              /\ p.vector # ZeroVector
        /\ kb_ret[1] =>
              kb_ret[2] = Cardinality({i \in 0 .. kb_args.n - 1 :
                                          OutcomeOf(i) = "ok"})

\* C32, amended: every stored point carries what get_embeddings answered
\* for its chunk: the provider's embedding of the chunk's text when the
\* calls of its sub-batch succeeded, the all-zero placeholder when they
\* ended in a provider error or an unexpected exception; a chunk whose
\* sub-batch was left without vectors is not stored, and the returned count
\* is the number of chunks that got a vector or a placeholder.
C32_VectorsAsAnswered ==
    EmbeddedChunks =>
        /\ \A p \in store :
              /\ OutcomeOf(p.payload.chunk_index) # "transient_exhausted"
              /\ OutcomeOf(p.payload.chunk_index) = "ok" =>
                    p.vector = ProviderEmbedding(CleanText(p.payload.text))
              /\ OutcomeOf(p.payload.chunk_index) \in DegradedOutcomes =>
                    p.vector = ZeroVector
        /\ kb_ret[1] =>
              kb_ret[2] = Cardinality({i \in 0 .. kb_args.n - 1 :
                                          OutcomeOf(i) # "transient_exhausted"})

\* An ingestion whose first sub-batch ended in a provider error and whose
\* second succeeded returned success and stored placeholders and vectors.
C32_Witness ==
    /\ EmbeddedChunks
    /\ kb_args.n > MAX_EMBEDDING_BATCH_SIZE
    /\ kb_args.outcomes[1] = "provider_exhausted"
    /\ kb_args.outcomes[2] = "ok"
    /\ kb_ret = <<TRUE, kb_args.n>>
    /\ \E p \in store : p.vector = ZeroVector
    /\ \E p \in store : p.vector # ZeroVector

----------------------------------------------------------------------------
(* A query whose text could not be embedded, checked under Spec *)

\* C33: when embedding the query text fails, the query returns the empty
\* list and client.search is not called with a substitute vector.
C33_NoSearchWithoutEmbedding ==
    kb_op = "query" =>
        /\ kb_args.vector = "zero" => results = <<>>
        /\ kb_args.search \in {"ok", "error"} => kb_args.vector = "embedding"

----------------------------------------------------------------------------
(* Properties of a query on a collection of versions, checked under *)
(* SpecQuery *)

\* The results of the last query that have no metadata.path.
PathlessResults ==
    {k \in 1 .. Len(results) : "path" \notin DOMAIN results[k].metadata}

\* C34: a query with limit >= 1 returns at most `limit` results, no two of
\* them have the same metadata.path, and their scores do not increase from
\* one result to the next.
C34_BoundedDistinctRanked ==
    kb_op = "query" =>
        /\ Len(results) <= limit
        /\ \A k, l \in 1 .. Len(results) :
              (/\ k < l
               /\ "path" \in DOMAIN results[k].metadata
               /\ "path" \in DOMAIN results[l].metadata) =>
                  results[k].metadata.path # results[l].metadata.path
        /\ \A k \in 1 .. Len(results) - 1 :
              results[k].score >= results[k + 1].score

\* A query with limit 2 whose hits hold two chunks of the latest version of
\* one path and a chunk of another path has returned two results, one per
\* path, the better one first.
C34_Witness ==
    /\ kb_op = "query"
    /\ limit = 2
    /\ Len(results) = 2
    /\ "path" \in DOMAIN results[1].metadata
    /\ "path" \in DOMAIN results[2].metadata
    /\ results[1].score > results[2].score
    /\ \E i, j \in 1 .. Len(hits) :
          /\ i # j
          /\ HitPath(hits[i]) = ResultPath(results[1])
          /\ HitPath(hits[j]) = ResultPath(results[1])
          /\ hits[i].payload.timestamp = results[1].timestamp
          /\ hits[j].payload.timestamp = results[1].timestamp


\* The hits of the last query that have no metadata.path.
PathlessHits ==
    {j \in 1 .. Len(hits) : "path" \notin DOMAIN hits[j].payload.metadata}

\* C35: the hits without a metadata.path are collapsed as one document: a
\* query returns at most one of them, and it has the greatest timestamp of
\* all such hits, whichever add_text calls they come from.
C35_PathlessCollapsed ==
    kb_op = "query" =>
        /\ Cardinality(PathlessResults) <= 1
        /\ \A k \in PathlessResults :
              /\ \E j \in PathlessHits : Presents(results[k], hits[j])
              /\ \A j \in PathlessHits :
                    hits[j].payload.timestamp <= results[k].timestamp

\* The hits hold chunks of two add_text calls, and the one result without a
\* path is of the later call.
C35_Witness ==
    /\ kb_op = "query"
    /\ \E i, j \in PathlessHits :
          /\ hits[i].payload.timestamp = 1
          /\ hits[j].payload.timestamp = 2
          /\ hits[i].payload.text # hits[j].payload.text
    /\ \E k \in PathlessResults : results[k].timestamp = 2
    /\ Cardinality(PathlessResults) = 1

----------------------------------------------------------------------------
(* The positions stored by an ingestion, checked under SpecIngest *)

\* C36: the chunk_index of a stored point is the 0-based position of its
\* chunk in the chunker's output and its total_chunks is the number of
\* chunks of the call, also when sub-batches were dropped: the points that
\* remain keep their positions and no two share one.
C36_OriginalIndices ==
    EmbeddedChunks =>
        \A p \in store :
           /\ p.payload.chunk_index \in 0 .. kb_args.n - 1
           /\ DocChunks(kb_args.content, kb_args.n)[p.payload.chunk_index + 1]
                 = p.payload.text
           /\ p.payload.total_chunks = kb_args.n
           /\ \A r \in store :
                 r.payload.chunk_index = p.payload.chunk_index => r = p

\* An ingestion of three sub-batches dropped the second: the stored points
\* are those of the first and the third, at their positions, with a gap.
C36_Witness ==
    /\ EmbeddedChunks
    /\ kb_args.n > 2 * MAX_EMBEDDING_BATCH_SIZE
    /\ kb_args.outcomes[1] = "ok"
    /\ kb_args.outcomes[2] = "transient_exhausted"
    /\ kb_args.outcomes[3] = "ok"
    /\ kb_ret[1]
    /\ {p.payload.chunk_index : p \in store} =
          (0 .. MAX_EMBEDDING_BATCH_SIZE - 1)
             \cup (2 * MAX_EMBEDDING_BATCH_SIZE .. kb_args.n - 1)

====
